---- MODULE Spec2Model ----
(***************************************************************************)
(* A model of the DevBench evaluators (src/src/requirement.py,             *)
(* frontend.py, backend.py, bug.py, project.py) and of the score merger    *)
(* (src/process_scores.py).                                                *)
(*                                                                         *)
(* Numbers.  Every dimension score the evaluators return has been through  *)
(* round(x, 1) or is an int, so a score is held as an integer number of    *)
(* tenths.  The report summary, however, adds the scores as Python floats  *)
(* and grades the unrounded quotient, so that part is computed on IEEE-754 *)
(* binary64 values, held exactly as integers in units of 2^-56 (a Big:     *)
(* four little-endian limbs of 21 bits).                                   *)
(***************************************************************************)
EXTENDS Integers, Sequences, FiniteSets, TLC

VARIABLES
    profile,   \* which analyzer class the instance under test is
    disk,      \* the artifact on disk: absent, or the features of its text
    args,      \* start_time / end_time handed to generate_evaluation_report
    content,   \* the analyzer's loaded content ("" until a load succeeds)
    report,    \* the value last returned by generate_evaluation_report
    previous,  \* the value returned by the call before that one
    calls,     \* generate_evaluation_report calls the driver has yet to make
    clock,     \* the day the wall clock shows, counted from the first one
    output,    \* the report file save_report_to_file writes
    call,      \* a single function application under test: name and input
    ret        \* its return value

vars == <<profile, disk, args, content, report, previous, calls, clock, output, call, ret>>

None == "none"

(***************************************************************************)
(* Small helpers.                                                          *)
(***************************************************************************)
Range(s) == {s[i] : i \in DOMAIN s}

RECURSIVE SumSeq(_)
SumSeq(s) == IF s = <<>> THEN 0 ELSE s[1] + SumSeq(Tail(s))

Min(a, b) == IF a < b THEN a ELSE b

\* The subsequence of s whose elements satisfy membership in keep
\* (a Python list comprehension / filtered loop: order is kept).
RECURSIVE Filter(_, _)
Filter(s, keep) ==
    IF s = <<>> THEN <<>>
    ELSE IF s[1] \in keep THEN <<s[1]>> \o Filter(Tail(s), keep)
         ELSE Filter(Tail(s), keep)

(***************************************************************************)
(* Python float arithmetic (IEEE-754 binary64, round-to-nearest-even).     *)
(* A Big <<l0, l1, l2, l3>> is the integer l0 + l1*B + l2*B^2 + l3*B^3,    *)
(* B = 2^21; as a float it stands for that integer times 2^-56.  Every     *)
(* float the summaries handle is 0 or lies in [2^-4, 2^8), where a         *)
(* binary64 value is a multiple of 2^-56 with at most 53 significant bits. *)
(***************************************************************************)
LimbBase == 2^21
MantissaBits == 50 + 3
UnitShift == 2^14          \* 2^56 = LimbBase^2 * UnitShift

BigZero == <<0, 0, 0, 0>>

BigNorm(x) ==
    LET s1 == x[2] + (x[1] \div LimbBase)
        s2 == x[3] + (s1 \div LimbBase)
        s3 == x[4] + (s2 \div LimbBase)
    IN  <<x[1] % LimbBase, s1 % LimbBase, s2 % LimbBase, s3>>

BigAdd(x, y) == BigNorm(<<x[1] + y[1], x[2] + y[2], x[3] + y[3], x[4] + y[4]>>)

\* c <= 1000
BigMulSmall(x, c) == BigNorm(<<x[1] * c, x[2] * c, x[3] * c, x[4] * c>>)

\* Quotient and remainder by a small divisor d <= 1000.
BigDivMod(x, d) ==
    LET q4 == x[4] \div d
        t3 == (x[4] % d) * LimbBase + x[3]
        t2 == (t3 % d) * LimbBase + x[2]
        t1 == (t2 % d) * LimbBase + x[1]
    IN  [q |-> <<t1 \div d, t2 \div d, t3 \div d, q4>>, r |-> t1 % d]

BigGE(x, y) ==
    IF x[4] # y[4] THEN x[4] > y[4]
    ELSE IF x[3] # y[3] THEN x[3] > y[3]
    ELSE IF x[2] # y[2] THEN x[2] > y[2]
    ELSE x[1] >= y[1]

LimbBitLen(n) == CHOOSE k \in 0..31 : n < 2^k /\ (k = 0 \/ 2^(k-1) <= n)

BigBitLen(x) ==
    IF x[4] # 0 THEN 63 + LimbBitLen(x[4])
    ELSE IF x[3] # 0 THEN 42 + LimbBitLen(x[3])
    ELSE IF x[2] # 0 THEN 21 + LimbBitLen(x[2])
    ELSE LimbBitLen(x[1])

\* Where the discarded fraction rem/den lies with respect to one half.
Sticky(rem, den) ==
    IF rem = 0 THEN "zero"
    ELSE IF 2 * rem < den THEN "below"
    ELSE IF 2 * rem = den THEN "half"
    ELSE "above"

\* x + (a fraction described by sticky), rounded to MantissaBits significant
\* bits, ties to even.  At most 20 low bits are ever dropped here.
BigRound(x, sticky) ==
    LET d == BigBitLen(x) - MantissaBits
    IN  IF d <= 0
        THEN IF sticky = "above" \/ (sticky = "half" /\ x[1] % 2 = 1)
             THEN BigAdd(x, <<1, 0, 0, 0>>)
             ELSE x
        ELSE LET low   == x[1] % (2^d)
                 half  == 2^(d-1)
                 trunc == <<x[1] - low, x[2], x[3], x[4]>>
                 odd   == ((x[1] \div (2^d)) % 2) = 1
                 up    == \/ low > half
                          \/ low = half /\ sticky # "zero"
                          \/ low = half /\ sticky = "zero" /\ odd
             IN  IF up THEN BigAdd(trunc, <<2^d, 0, 0, 0>>) ELSE trunc

\* float(n) for an int 0 <= n < 256: exact.
PyFloatOfInt(n) == BigNorm(<<0, 0, n * UnitShift, 0>>)

\* x / m for a float x and an int 1 <= m <= 1000, correctly rounded.  (Below
\* 2^-4 the quotient is rounded to the 2^-56 grid instead: such a quotient
\* is only ever compared with thresholds of 0.6 and more.)
PyTrueDiv(x, m) ==
    LET qr == BigDivMod(x, m) IN BigRound(qr.q, Sticky(qr.r, m))

\* The float that round(x, 1) returns when its decimal value is k/10, and
\* the float of a literal such as 0.9: the binary64 nearest to k/10.
PyFloatOfTenths(k) == PyTrueDiv(PyFloatOfInt(k), 10)

\* The binary64 nearest to n/10000 (a ratio such as 0.8999): one correctly
\* rounded division, carried out as two exact divisions by 100.
PyFloatOfBasisPoints(n) ==
    LET a == BigDivMod(PyFloatOfInt(n), 100)
        b == BigDivMod(a.q, 100)
    IN  BigRound(b.q, Sticky(b.r * 100 + a.r, 10000))

\* x + y on floats.
PyAdd(x, y) == BigRound(BigAdd(x, y), "zero")

\* The integer nearest to x * 2^-56 (ties to even) for a Big x.
BigToNearestInt(x, sticky) ==
    LET int  == (x[3] \div UnitShift) + x[4] * (LimbBase \div UnitShift)
        fr   == x[3] % UnitShift
        half == UnitShift \div 2
        rest == x[1] # 0 \/ x[2] # 0 \/ sticky # "zero"
        up   == \/ fr > half
                \/ fr = half /\ rest
                \/ fr = half /\ ~rest /\ int % 2 = 1
    IN  IF up THEN int + 1 ELSE int

\* round(x, 1), in tenths.
PyRound1(x) == BigToNearestInt(BigMulSmall(x, 10), "zero")

\* round((x / m) * 100, 2), in hundredths.  The quotient and the product are
\* taken exactly: their two float roundings move the value by less than
\* 2^-44, and for a total within 2^-44 of a multiple of 0.1 and m in
\* {30, 40, 75} the value is never that close to a rounding tie.
PyPercent2(x, m) ==
    LET qr == BigDivMod(BigMulSmall(BigMulSmall(x, 100), 100), m)
    IN  BigToNearestInt(qr.q, Sticky(qr.r, m))


\* round(num / den) to an integer, ties to even: what round(x, n) does to a
\* value whose binary form is exact (quarters, eighths), and to any value
\* that is not within a float error of a tie.
PyRoundDiv(num, den) ==
    LET q == num \div den
        r == num % den
    IN  IF 2 * r > den \/ (2 * r = den /\ q % 2 = 1) THEN q + 1 ELSE q

(***************************************************************************)
(* Artifact text.  A text is known by what the detectors can see in it:    *)
(*   words  - the configured literals that occur in it (lower-cased        *)
(*            substring test, `kw.lower() in content_lower`);              *)
(*   long   - the sections whose extracted body reaches the section's      *)
(*            min_content_length;                                          *)
(*   counts - per category, the number of re.findall matches;              *)
(*   ears   - per EARS pattern, the number of re.findall matches.          *)
(* The literals are named in ASCII here; the source strings are:           *)
(*   user_register 用户注册   login 登录          book_search 书籍搜索     *)
(*   publish_book 发布图书    self_pickup 自提    self_payment 自付款      *)
(*   category_browse 分类浏览 order_manage 订单管理                        *)
(*   book_detail 图书详情     user_center 个人中心                         *)
(*   sec_tech 技术约束        sec_func 功能需求   sec_nonfunc 非功能需求   *)
(*   sec_story 用户故事       sec_accept 验收标准                          *)
(*   frontend 前端  backend 后端  database 数据库  tech_stack 技术栈       *)
(*   function 功能  module 模块   user 用户        system 系统             *)
(*   performance 性能  security 安全  availability 可用性                  *)
(*   response_time 响应时间  as_a 作为  i_want 我希望  so_that 以便        *)
(*   acceptance 验收  standard 标准  test 测试  condition 条件             *)
(*   ui UI  component_lib 组件库  interface 界面  framework 框架           *)
(*   javascript, js, api API, endpoint 接口, service 服务, orm ORM,        *)
(*   model 模型  data 数据  storage 存储  connection 连接                  *)
(*   cat_time 时间指标  cat_quantity 数量指标  cat_perf 性能指标           *)
(*   cat_tech 技术指标                                                     *)
(*   ears_plain 普通需求  ears_event 事件驱动  ears_state 状态驱动         *)
(*   ears_optional 可选特性  ears_complex 复杂需求                         *)
(***************************************************************************)
Found(text, literal) == literal \in text.words

\* RequirementAnalyzer.__init__: function_keywords, weights in tenths.
RequirementFunctionKeywords ==
    << [name |-> "user_register",   weight |-> 20],
       [name |-> "login",           weight |-> 20],
       [name |-> "book_search",     weight |-> 20],
       [name |-> "publish_book",    weight |-> 20],
       [name |-> "self_pickup",     weight |-> 20],
       [name |-> "self_payment",    weight |-> 20],
       [name |-> "category_browse", weight |-> 15],
       [name |-> "order_manage",    weight |-> 15],
       [name |-> "book_detail",     weight |-> 15],
       [name |-> "user_center",     weight |-> 15] >>

Names(table) == [i \in DOMAIN table |-> table[i].name]

WeightOf(table, name) ==
    table[CHOOSE i \in DOMAIN table : table[i].name = name].weight

RECURSIVE SumWeights(_, _)
SumWeights(table, names) ==
    IF names = <<>> THEN 0
    ELSE WeightOf(table, names[1]) + SumWeights(table, Tail(names))

\* What a call that died with an exception gives.
Raised(exception) == [raised |-> exception]

\* evaluate_function_coverage normalised by the number of keywords.
RequirementEvaluateFunctionCoverageByCount(function_keywords, text) ==
    LET names     == Names(function_keywords)
        hit       == {n \in Range(names) : Found(text, n)}
        max_score == 200
        matched   == Filter(names, hit)
    IN  [ total_score        |-> PyRoundDiv(Len(matched) * max_score, Len(names)),
          max_score          |-> max_score,
          matched_keywords   |-> matched,
          unmatched_keywords |-> Filter(names, Range(names) \ hit),
          details            |-> [i \in DOMAIN names |->
                                    [found |-> names[i] \in hit, item |-> names[i]]] ]

\* RequirementAnalyzer.evaluate_function_coverage.  Scores are in tenths:
\* max_score 200 is the source's 20.  weight / total_weight is taken for
\* every keyword found, and raises when the weights add up to nothing.
RequirementEvaluateFunctionCoverage(function_keywords, text) ==
    LET names        == Names(function_keywords)
        hit          == {n \in Range(names) : Found(text, n)}
        max_score    == 200
        total_weight == SumWeights(function_keywords, names)
        matched      == Filter(names, hit)
        unmatched    == Filter(names, Range(names) \ hit)
        \* sum of (weight / total_weight) * max_score over the matched ones
        raw_num      == SumWeights(function_keywords, matched) * max_score
    IN  IF matched # <<>> /\ total_weight = 0
        THEN Raised("ZeroDivisionError")
        ELSE [ total_score        |-> IF matched = <<>> THEN 0
                                      ELSE PyRoundDiv(raw_num, total_weight),
               max_score          |-> max_score,
               matched_keywords   |-> matched,
               unmatched_keywords |-> unmatched,
               details            |-> [i \in DOMAIN names |->
                                         [found |-> names[i] \in hit, item |-> names[i]]] ]

\* evaluate_structure_completeness: structure_criteria.
StructureCriteria ==
    << [name |-> "sec_tech",    keywords |-> <<"frontend", "backend", "database", "tech_stack">>,
        weight |-> 3],
       [name |-> "sec_func",    keywords |-> <<"function", "module", "user", "system">>,
        weight |-> 5],
       [name |-> "sec_nonfunc", keywords |-> <<"performance", "security", "availability", "response_time">>,
        weight |-> 4],
       [name |-> "sec_story",   keywords |-> <<"as_a", "i_want", "so_that", "user">>,
        weight |-> 4],
       [name |-> "sec_accept",  keywords |-> <<"acceptance", "standard", "test", "condition">>,
        weight |-> 4] >>

\* sum(1 for kw in keywords if kw.lower() in content_lower)
KeywordCount(text, keywords) ==
    Cardinality({i \in DOMAIN keywords : Found(text, keywords[i])})

\* The quality score with one base point instead of two.
SectionQualityBaseOne(text, criteria) ==
    1 + (IF KeywordCount(text, criteria.keywords) >= 2 THEN 1 ELSE 0)
      + (IF criteria.name \in text.long THEN 1 ELSE 0)

\* The quality score of one section that was found.
SectionQuality(text, criteria) ==
    2 + (IF KeywordCount(text, criteria.keywords) >= 2 THEN 1 ELSE 0)
      + (IF criteria.name \in text.long THEN 1 ELSE 0)

\* RequirementAnalyzer.evaluate_structure_completeness.
RequirementEvaluateStructureCompleteness(text) ==
    LET names   == Names(StructureCriteria)
        hit     == {n \in Range(names) : Found(text, n)}
        quality == [i \in DOMAIN names |->
                      IF names[i] \in hit
                      THEN SectionQuality(text, StructureCriteria[i]) ELSE 0]
        \* sum of (quality_score / 4) * weight, in quarters
        quarters == SumSeq([i \in DOMAIN names |-> quality[i] * StructureCriteria[i].weight])
    IN  [ total_score      |-> PyRoundDiv(quarters * 10, 4),
          max_score        |-> 200,
          found_sections   |-> Filter(names, hit),
          missing_sections |-> Filter(names, Range(names) \ hit),
          quality_scores   |-> [n \in hit |->
                                  quality[CHOOSE i \in DOMAIN names : names[i] = n]],
          details          |-> [i \in DOMAIN names |->
                                  [found |-> names[i] \in hit, item |-> names[i]]] ]

\* evaluate_description_clarity: quantifiable_categories, in order.
QuantifiableCategories == <<"cat_time", "cat_quantity", "cat_perf", "cat_tech">>

\* evaluate_description_clarity with the bonus tiers tested lowest first.
RequirementEvaluateDescriptionClarityLowestFirst(text) ==
    LET category_scores    == [c \in Range(QuantifiableCategories) |-> text.counts[c]]
        quantifiable_count == SumSeq([i \in DOMAIN QuantifiableCategories |->
                                        category_scores[QuantifiableCategories[i]]])
        capped             == SumSeq([i \in DOMAIN QuantifiableCategories |->
                                        Min(category_scores[QuantifiableCategories[i]], 3)])
        bonus              == IF quantifiable_count >= 2 THEN 1
                              ELSE IF quantifiable_count >= 5 THEN 2
                              ELSE IF quantifiable_count >= 10 THEN 3
                              ELSE 0
    IN  [ total_score        |-> (capped + bonus) * 10,
          max_score          |-> 150,
          quantifiable_count |-> quantifiable_count,
          category_scores    |-> category_scores,
          details            |-> [i \in DOMAIN QuantifiableCategories |->
                                    [found |-> category_scores[QuantifiableCategories[i]] > 0,
                                     item  |-> QuantifiableCategories[i]]] ]

\* RequirementAnalyzer.evaluate_description_clarity.
RequirementEvaluateDescriptionClarity(text) ==
    LET category_scores    == [c \in Range(QuantifiableCategories) |-> text.counts[c]]
        quantifiable_count == SumSeq([i \in DOMAIN QuantifiableCategories |->
                                        category_scores[QuantifiableCategories[i]]])
        capped             == SumSeq([i \in DOMAIN QuantifiableCategories |->
                                        Min(category_scores[QuantifiableCategories[i]], 3)])
        bonus              == IF quantifiable_count >= 10 THEN 3
                              ELSE IF quantifiable_count >= 5 THEN 2
                              ELSE IF quantifiable_count >= 2 THEN 1
                              ELSE 0
    IN  [ total_score        |-> (capped + bonus) * 10,
          max_score          |-> 150,
          quantifiable_count |-> quantifiable_count,
          category_scores    |-> category_scores,
          details            |-> [i \in DOMAIN QuantifiableCategories |->
                                    [found |-> category_scores[QuantifiableCategories[i]] > 0,
                                     item  |-> QuantifiableCategories[i]]] ]

\* evaluate_tech_requirements: tech_requirements.
TechRequirements ==
    << [name |-> "arco.design", keywords |-> <<"frontend", "ui", "component_lib", "interface">>],
       [name |-> "vue",         keywords |-> <<"frontend", "framework", "javascript", "js">>],
       [name |-> "fastapi",     keywords |-> <<"backend", "api", "endpoint", "service">>],
       [name |-> "sqlmodel",    keywords |-> <<"database", "orm", "model", "data">>],
       [name |-> "mysql",       keywords |-> <<"database", "storage", "data", "connection">>] >>

\* RequirementAnalyzer.evaluate_tech_requirements.  A found technology earns
\* 1.5 + min(context_count * 0.125, 0.5), counted here in thousandths.
RequirementEvaluateTechRequirements(text) ==
    LET names   == Names(TechRequirements)
        hit     == {n \in Range(names) : Found(text, n)}
        context == [i \in DOMAIN names |->
                      Min(KeywordCount(text, TechRequirements[i].keywords) * 125, 500)]
        thousandths == SumSeq([i \in DOMAIN names |->
                                 IF names[i] \in hit THEN 1500 + context[i] ELSE 0])
    IN  [ total_score        |-> PyRoundDiv(thousandths, 100),
          max_score          |-> 100,
          matched_keywords   |-> Filter(names, hit),
          unmatched_keywords |-> Filter(names, Range(names) \ hit),
          context_scores     |-> [n \in hit |->
                                    context[CHOOSE i \in DOMAIN names : names[i] = n]],
          details            |-> [i \in DOMAIN names |->
                                    [found |-> names[i] \in hit, item |-> names[i]]] ]

\* evaluate_ears_compliance: ears_patterns, in order.
EarsPatterns == <<"ears_plain", "ears_event", "ears_state", "ears_optional", "ears_complex">>

\* RequirementAnalyzer.evaluate_ears_compliance.
RequirementEvaluateEarsCompliance(text) ==
    LET hit == {p \in Range(EarsPatterns) : text.ears[p] > 0}
    IN  [ total_score         |-> 20 * Cardinality(hit),
          max_score           |-> 100,
          ears_patterns_found |-> SumSeq([i \in DOMAIN EarsPatterns |-> text.ears[EarsPatterns[i]]]),
          details             |-> [i \in DOMAIN EarsPatterns |->
                                     [found |-> EarsPatterns[i] \in hit,
                                      item  |-> EarsPatterns[i]]] ]


(***************************************************************************)
(* Grades and the report summary.                                          *)
(***************************************************************************)
\* The float literals 0.9, 0.8, 0.7, 0.6 of _calculate_grade, in tenths.
GradeBands == << [at |-> 9, grade |-> "A"], [at |-> 8, grade |-> "B"],
                 [at |-> 7, grade |-> "C"], [at |-> 6, grade |-> "D"] >>

\* RequirementAnalyzer._calculate_grade: the if / elif chain over the float
\* ratio.  The grades are the source's "优秀 (A)", "良好 (B)", "中等 (C)",
\* "及格 (D)", "不及格 (F)".
RequirementCalculateGrade(percentage) ==
    IF BigGE(percentage, PyFloatOfTenths(GradeBands[1].at)) THEN GradeBands[1].grade
    ELSE IF BigGE(percentage, PyFloatOfTenths(GradeBands[2].at)) THEN GradeBands[2].grade
    ELSE IF BigGE(percentage, PyFloatOfTenths(GradeBands[3].at)) THEN GradeBands[3].grade
    ELSE IF BigGE(percentage, PyFloatOfTenths(GradeBands[4].at)) THEN GradeBands[4].grade
    ELSE "F"

\* a + b + c + ... on floats, left to right, over scores given in tenths.
RECURSIVE FloatSumFrom(_, _)
FloatSumFrom(acc, scores) ==
    IF scores = <<>> THEN acc
    ELSE FloatSumFrom(PyAdd(acc, PyFloatOfTenths(scores[1])), Tail(scores))

FloatSum(scores) == FloatSumFrom(PyFloatOfTenths(scores[1]), Tail(scores))

\* SummaryOf with the percentage cut to two decimals instead of rounded.
SummaryOfTruncated(results) ==
    LET total_score     == FloatSum([i \in DOMAIN results |-> results[i].total_score])
        max_total_score == SumSeq([i \in DOMAIN results |-> results[i].max_score])
        qr == BigDivMod(BigMulSmall(BigMulSmall(total_score, 100), 100), max_total_score \div 10)
    IN  [ total_score     |-> PyRound1(total_score),
          max_total_score |-> max_total_score,
          percentage      |-> BigToNearestInt(<<0, 0, qr.q[3] - (qr.q[3] % UnitShift), qr.q[4]>>,
                                              "zero"),
          ratio           |-> PyTrueDiv(total_score, max_total_score \div 10) ]

\* generate_evaluation_report: total_score, max_total_score and the
\* "evaluation_summary" entry built from them, without the grade.
\* total_score is in tenths, percentage in hundredths, max_total_score in
\* tenths; ratio is the float total_score / max_total_score.
SummaryOf(results) ==
    LET total_score     == FloatSum([i \in DOMAIN results |-> results[i].total_score])
        max_total_score == SumSeq([i \in DOMAIN results |-> results[i].max_score])
    IN  [ total_score     |-> PyRound1(total_score),
          max_total_score |-> max_total_score,
          percentage      |-> PyPercent2(total_score, max_total_score \div 10),
          ratio           |-> PyTrueDiv(total_score, max_total_score \div 10) ]

\* datetime.now().strftime("%Y-%m-%d").
Today == clock

\* The "evaluation_summary" dictionary.
EvaluationSummary(summary, grade) ==
    [ evaluation_date |-> Today,
      total_score     |-> summary.total_score,
      max_total_score |-> summary.max_total_score,
      percentage      |-> summary.percentage,
      grade           |-> grade ]

\* No report yet, and the {"error": ...} dictionary of a failed load.
NoReport == [status |-> "none"]
ErrorReport == [status |-> "error"]

(***************************************************************************)
(* Recommendations.  One is a record: the dimension it is about, which of  *)
(* the source's message templates it is, the items the message names, and  *)
(* the message itself.                                                     *)
(***************************************************************************)
\* sep.join(items), as the pieces of the resulting string in order.
RECURSIVE Join(_, _)
Join(sep, items) ==
    IF items = <<>> THEN <<>>
    ELSE IF Len(items) = 1 THEN <<items[1]>>
    ELSE <<items[1], sep>> \o Join(sep, Tail(items))

\* text is the f-string: the template's fixed words, then what it
\* interpolates (', '.join(items), or a number).
Rec(about, template, items) ==
    [about |-> about, template |-> template, items |-> items,
     text |-> <<template>> \o Join(", ", items)]

\* "...质量良好，无需特别改进"
Canned == Rec(None, "quality is good", <<>>)

\* The closing step of _generate_recommendations with the canned message
\* appended whatever the list holds.
OrCannedAlways(recommendations) == recommendations \o <<Canned>>

\* if not recommendations: recommendations.append(<canned message>)
OrCanned(recommendations) ==
    IF recommendations = <<>> THEN <<Canned>> ELSE recommendations

When(cond, rec) == IF cond THEN <<rec>> ELSE <<>>

\* _generate_recommendations with 2 as the importance threshold.
RequirementRecommendationsSplitAtTwo(function_keywords, function_coverage, structure_completeness, description_clarity, tech_requirements, ears_compliance) ==
    LET unmatched == function_coverage.unmatched_keywords
        high == {n \in Range(unmatched) : WeightOf(function_keywords, n) >= 20}
        high_weight_missing == Filter(unmatched, high)
        low_weight_missing  == Filter(unmatched, Range(unmatched) \ high)
        missing_categories  ==
            Filter(QuantifiableCategories,
                   {c \in Range(QuantifiableCategories) :
                        description_clarity.category_scores[c] = 0})
    IN  OrCanned(
            When(unmatched # <<>> /\ high_weight_missing # <<>>,
                 Rec("function_coverage", "add important functions", high_weight_missing))
         \o When(unmatched # <<>> /\ low_weight_missing # <<>>,
                 Rec("function_coverage", "add auxiliary functions", low_weight_missing))
         \o When(structure_completeness.missing_sections # <<>>,
                 Rec("structure_completeness", "add sections",
                     structure_completeness.missing_sections))
         \o When(missing_categories # <<>>,
                 Rec("description_clarity", "add quantifiable indicators", missing_categories))
         \o When(tech_requirements.unmatched_keywords # <<>>,
                 Rec("tech_requirements", "specify tech stack",
                     tech_requirements.unmatched_keywords))
         \o When(ears_compliance.total_score < 60,
                 Rec("ears_compliance", "use more EARS patterns", <<>>)))

\* RequirementAnalyzer._generate_recommendations for an analyzer whose
\* function_keywords is the given table.  The importance threshold 1.5 is 15
\* tenths; every unmatched keyword is a key of the table, so the default of
\* .get(kw, 1) is never used.
RequirementRecommendations(function_keywords, function_coverage, structure_completeness, description_clarity, tech_requirements, ears_compliance) ==
    LET unmatched == function_coverage.unmatched_keywords
        high == {n \in Range(unmatched) : WeightOf(function_keywords, n) >= 15}
        high_weight_missing == Filter(unmatched, high)
        low_weight_missing  == Filter(unmatched, Range(unmatched) \ high)
        missing_categories  ==
            Filter(QuantifiableCategories,
                   {c \in Range(QuantifiableCategories) :
                        description_clarity.category_scores[c] = 0})
    IN  OrCanned(
            When(unmatched # <<>> /\ high_weight_missing # <<>>,
                 Rec("function_coverage", "add important functions", high_weight_missing))
         \o When(unmatched # <<>> /\ low_weight_missing # <<>>,
                 Rec("function_coverage", "add auxiliary functions", low_weight_missing))
         \o When(structure_completeness.missing_sections # <<>>,
                 Rec("structure_completeness", "add sections",
                     structure_completeness.missing_sections))
         \o When(missing_categories # <<>>,
                 Rec("description_clarity", "add quantifiable indicators", missing_categories))
         \o When(tech_requirements.unmatched_keywords # <<>>,
                 Rec("tech_requirements", "specify tech stack",
                     tech_requirements.unmatched_keywords))
         \o When(ears_compliance.total_score < 60,
                 Rec("ears_compliance", "use more EARS patterns", <<>>)))

\* RequirementAnalyzer._generate_recommendations as __init__ configures it.
\* _generate_recommendations without the test of the EARS score.
RequirementGenerateRecommendationsIgnoringEars(function_coverage, structure_completeness, description_clarity, tech_requirements, ears_compliance) ==
    RequirementRecommendations(RequirementFunctionKeywords, function_coverage,
                               structure_completeness, description_clarity,
                               tech_requirements, [total_score |-> 100])

RequirementGenerateRecommendations(function_coverage, structure_completeness, description_clarity, tech_requirements, ears_compliance) ==
    RequirementRecommendations(RequirementFunctionKeywords, function_coverage,
                               structure_completeness, description_clarity,
                               tech_requirements, ears_compliance)

\* RequirementAnalyzer.generate_evaluation_report, after a successful load.
RequirementReport(text) ==
    LET function_coverage      == RequirementEvaluateFunctionCoverage(RequirementFunctionKeywords, text)
        structure_completeness == RequirementEvaluateStructureCompleteness(text)
        description_clarity    == RequirementEvaluateDescriptionClarity(text)
        tech_requirements      == RequirementEvaluateTechRequirements(text)
        ears_compliance        == RequirementEvaluateEarsCompliance(text)
        results == <<function_coverage, structure_completeness, description_clarity,
                     tech_requirements, ears_compliance>>
        summary == SummaryOf(results)
    IN  [ status             |-> "ok",
          evaluation_summary |-> EvaluationSummary(summary, RequirementCalculateGrade(summary.ratio)),
          dimensions         |-> <<"function_coverage", "structure_completeness",
                                   "description_clarity", "tech_requirements",
                                   "ears_compliance">>,
          results            |-> results,
          recommendations    |-> RequirementGenerateRecommendations(
                                     function_coverage, structure_completeness,
                                     description_clarity, tech_requirements,
                                     ears_compliance) ]


(***************************************************************************)
(* FrontendAnalyzer.  Literals: book_info 图书信息展示, related_list       *)
(* 相关推荐列表, comment_area 用户评论区, add_to_cart 加入购物车按钮;      *)
(* layout 布局合理性, color 色彩搭配, interaction 交互体验, responsive     *)
(* 响应式设计; componentized 组件化结构, naming 命名规范, reuse            *)
(* 代码复用率, perf_opt 性能优化.                                          *)
(***************************************************************************)
\* FrontendAnalyzer.__init__: function_keywords, each worth 2.5.
FrontendFunctionKeywords ==
    << [name |-> "book_info",    weight |-> 25],
       [name |-> "related_list", weight |-> 25],
       [name |-> "comment_area", weight |-> 25],
       [name |-> "add_to_cart",  weight |-> 25] >>

\* evaluate_ui_beauty: ui_aspects with aspect_weights.
UiAspects ==
    << [name |-> "layout",      weight |-> 30],
       [name |-> "color",       weight |-> 30],
       [name |-> "interaction", weight |-> 20],
       [name |-> "responsive",  weight |-> 20] >>

\* evaluate_code_quality: code_quality_aspects with aspect_weights.
CodeQualityAspects ==
    << [name |-> "componentized", weight |-> 30],
       [name |-> "naming",        weight |-> 20],
       [name |-> "reuse",         weight |-> 20],
       [name |-> "perf_opt",      weight |-> 30] >>

\* The checklist loop with every literal appended to the unmatched list.
FrontendChecklistAppendingAll(table, text) ==
    LET names == Names(table)
        hit   == {n \in Range(names) : Found(text, n)}
    IN  [ total_score |-> SumWeights(table, Filter(names, hit)),
          max_score   |-> 100,
          matched     |-> Filter(names, hit),
          unmatched   |-> names,
          details     |-> [i \in DOMAIN names |->
                             [found |-> names[i] \in hit, item |-> names[i]]] ]

\* The loop shared by evaluate_function_coverage, evaluate_ui_beauty and
\* evaluate_code_quality of FrontendAnalyzer: add the weight of every
\* literal found, round to one decimal.
FrontendChecklist(table, text) ==
    LET names == Names(table)
        hit   == {n \in Range(names) : Found(text, n)}
    IN  [ total_score |-> SumWeights(table, Filter(names, hit)),
          max_score   |-> 100,
          matched     |-> Filter(names, hit),
          unmatched   |-> Filter(names, Range(names) \ hit),
          details     |-> [i \in DOMAIN names |->
                             [found |-> names[i] \in hit, item |-> names[i]]] ]

\* FrontendAnalyzer.evaluate_function_coverage (matched_keywords /
\* unmatched_keywords).
FrontendEvaluateFunctionCoverage(text) == FrontendChecklist(FrontendFunctionKeywords, text)

\* FrontendAnalyzer.evaluate_ui_beauty (evaluated_aspects / missing_aspects).
FrontendEvaluateUiBeauty(text) == FrontendChecklist(UiAspects, text)

\* FrontendAnalyzer.evaluate_code_quality (evaluated_aspects / missing_aspects).
FrontendEvaluateCodeQuality(text) == FrontendChecklist(CodeQualityAspects, text)

\* FrontendAnalyzer._calculate_grade.
FrontendCalculateGrade(percentage) ==
    IF BigGE(percentage, PyFloatOfTenths(GradeBands[1].at)) THEN GradeBands[1].grade
    ELSE IF BigGE(percentage, PyFloatOfTenths(GradeBands[2].at)) THEN GradeBands[2].grade
    ELSE IF BigGE(percentage, PyFloatOfTenths(GradeBands[3].at)) THEN GradeBands[3].grade
    ELSE IF BigGE(percentage, PyFloatOfTenths(GradeBands[4].at)) THEN GradeBands[4].grade
    ELSE "F"

\* _generate_recommendations with the dimension that misses more items
\* reported first.
FrontendGenerateRecommendationsLargestFirst(function_coverage, ui_beauty, code_quality) ==
    LET ui == When(ui_beauty.unmatched # <<>>,
                   Rec("ui_beauty", "improve ui aspects", ui_beauty.unmatched))
        cq == When(code_quality.unmatched # <<>>,
                   Rec("code_quality", "improve code quality aspects", code_quality.unmatched))
    IN  OrCanned(
            When(function_coverage.unmatched # <<>>,
                 Rec("function_coverage", "implement missing functions",
                     function_coverage.unmatched))
         \o (IF Len(code_quality.unmatched) > Len(ui_beauty.unmatched)
             THEN cq \o ui ELSE ui \o cq))

\* _generate_recommendations without the code-quality message.
FrontendGenerateRecommendationsOfTwo(function_coverage, ui_beauty, code_quality) ==
    OrCanned(
        When(function_coverage.unmatched # <<>>,
             Rec("function_coverage", "implement missing functions", function_coverage.unmatched))
     \o When(ui_beauty.unmatched # <<>>,
             Rec("ui_beauty", "improve ui aspects", ui_beauty.unmatched)))

\* FrontendAnalyzer._generate_recommendations.
FrontendGenerateRecommendations(function_coverage, ui_beauty, code_quality) ==
    OrCanned(
        When(function_coverage.unmatched # <<>>,
             Rec("function_coverage", "implement missing functions", function_coverage.unmatched))
     \o When(ui_beauty.unmatched # <<>>,
             Rec("ui_beauty", "improve ui aspects", ui_beauty.unmatched))
     \o When(code_quality.unmatched # <<>>,
             Rec("code_quality", "improve code quality aspects", code_quality.unmatched)))

\* FrontendAnalyzer.generate_evaluation_report, after a successful load.
FrontendReport(text) ==
    LET function_coverage == FrontendEvaluateFunctionCoverage(text)
        ui_beauty         == FrontendEvaluateUiBeauty(text)
        code_quality      == FrontendEvaluateCodeQuality(text)
        results == <<function_coverage, ui_beauty, code_quality>>
        summary == SummaryOf(results)
    IN  [ status             |-> "ok",
          evaluation_summary |-> EvaluationSummary(summary, FrontendCalculateGrade(summary.ratio)),
          dimensions         |-> <<"function_coverage", "ui_beauty", "code_quality">>,
          results            |-> results,
          recommendations    |-> FrontendGenerateRecommendations(
                                     function_coverage, ui_beauty, code_quality) ]

(***************************************************************************)
(* BackendAnalyzer.  backend_files is known by the number of matches its   *)
(* files give the api_patterns (all patterns, all files, added up) and     *)
(* each of the code_quality_patterns; test_files by the matches they give  *)
(* each of the test_patterns.  Categories: structure 代码结构, naming      *)
(* 命名规范, errors 错误处理, security 安全措施, database 数据库设计;      *)
(* functional 功能测试, performance 性能测试, security 安全测试.           *)
(***************************************************************************)
\* evaluate_test_pass_rate: category_weights, in test_patterns order.
TestCategories ==
    << [name |-> "test_functional",  weight |-> 5],
       [name |-> "test_performance", weight |-> 3],
       [name |-> "test_security",    weight |-> 2] >>

\* evaluate_code_quality: category_weights, in code_quality_patterns order.
QualityCategories ==
    << [name |-> "structure", weight |-> 2],
       [name |-> "naming",    weight |-> 2],
       [name |-> "errors",    weight |-> 2],
       [name |-> "security",  weight |-> 2],
       [name |-> "database",  weight |-> 2] >>

\* BackendAnalyzer.evaluate_api_completion; total_apis is the source's
\* assumed 10.  completion_rate is bound only when total_apis is positive.
BackendEvaluateApiCompletion(files, total_apis) ==
    LET max_score == 100
        implemented_apis == files.api
    IN  IF total_apis > 0
        THEN [ total_score      |-> PyRoundDiv(implemented_apis * max_score, total_apis),
               max_score        |-> max_score,
               implemented_apis |-> implemented_apis,
               total_apis       |-> total_apis,
               details          |-> << [item |-> "implemented_apis", value |-> implemented_apis,
                                        of |-> total_apis],
                                       [item |-> "completion_rate", value |-> implemented_apis,
                                        of |-> total_apis] >> ]
        ELSE Raised("NameError")

\* BackendAnalyzer.evaluate_test_pass_rate: every test found is taken as
\* passed, so a category with tests earns its whole weight.
BackendEvaluateTestPassRate(tests) ==
    LET names == Names(TestCategories)
        category_scores == [n \in Range(names) |-> [total |-> tests[n], passed |-> tests[n]]]
    IN  [ total_score     |-> SumSeq([i \in DOMAIN names |->
                                        IF tests[names[i]] > 0
                                        THEN PyRoundDiv(category_scores[names[i]].passed
                                                          * TestCategories[i].weight * 10,
                                                        category_scores[names[i]].total)
                                        ELSE 0]),
          max_score       |-> 100,
          category_order  |-> names,
          category_scores |-> category_scores,
          details         |-> [i \in DOMAIN names |->
                                 [item |-> names[i], value |-> tests[names[i]]]] ]

\* category_score with tiers that begin at 5, 20 and 50 matches.
QualityCategoryScoreFromBound(category_matches, weight) ==
    IF category_matches >= 50 THEN weight * 100
    ELSE IF category_matches >= 20 THEN weight * 70
    ELSE IF category_matches >= 5 THEN weight * 40
    ELSE 0

\* The score of one category with category_matches matches, in hundredths.
QualityCategoryScore(category_matches, weight) ==
    IF category_matches > 50 THEN weight * 100
    ELSE IF category_matches > 20 THEN weight * 70
    ELSE IF category_matches > 5 THEN weight * 40
    ELSE 0

\* BackendAnalyzer.evaluate_code_quality.
BackendEvaluateCodeQuality(files) ==
    LET names == Names(QualityCategories)
    IN  [ total_score     |-> PyRoundDiv(
                                SumSeq([i \in DOMAIN names |->
                                          QualityCategoryScore(files.quality[names[i]],
                                                               QualityCategories[i].weight)]),
                                10),
          max_score       |-> 100,
          category_order  |-> names,
          category_scores |-> [n \in Range(names) |-> files.quality[n]],
          details         |-> [i \in DOMAIN names |->
                                 [item |-> names[i], value |-> files.quality[names[i]]]] ]

\* _calculate_grade with bands that exclude their lower bound.
BackendCalculateGradeExclusive(percentage) ==
    LET above(k) == BigGE(percentage, PyFloatOfTenths(k)) /\ percentage # PyFloatOfTenths(k)
    IN  IF above(GradeBands[1].at) THEN GradeBands[1].grade
        ELSE IF above(GradeBands[2].at) THEN GradeBands[2].grade
        ELSE IF above(GradeBands[3].at) THEN GradeBands[3].grade
        ELSE IF above(GradeBands[4].at) THEN GradeBands[4].grade
        ELSE "F"

\* BackendAnalyzer._calculate_grade.
BackendCalculateGrade(percentage) ==
    IF BigGE(percentage, PyFloatOfTenths(GradeBands[1].at)) THEN GradeBands[1].grade
    ELSE IF BigGE(percentage, PyFloatOfTenths(GradeBands[2].at)) THEN GradeBands[2].grade
    ELSE IF BigGE(percentage, PyFloatOfTenths(GradeBands[3].at)) THEN GradeBands[3].grade
    ELSE IF BigGE(percentage, PyFloatOfTenths(GradeBands[4].at)) THEN GradeBands[4].grade
    ELSE "F"

\* One recommendation for each element of order that is in chosen.
RECURSIVE RecEach(_, _, _, _)
RecEach(about, template, order, chosen) ==
    IF order = <<>> THEN <<>>
    ELSE When(order[1] \in chosen, Rec(about, template, <<order[1]>>))
           \o RecEach(about, template, Tail(order), chosen)

\* BackendAnalyzer._generate_recommendations.
BackendGenerateRecommendations(api_completion, test_pass_rate, code_quality) ==
    OrCanned(
        When(/\ api_completion.total_apis > 0
             /\ api_completion.implemented_apis < api_completion.total_apis,
             Rec("api_completion", "implement remaining apis",
                 <<api_completion.total_apis - api_completion.implemented_apis>>))
     \o RecEach("test_pass_rate", "fix failed tests", test_pass_rate.category_order,
                {c \in Range(test_pass_rate.category_order) :
                    /\ test_pass_rate.category_scores[c].total > 0
                    /\ test_pass_rate.category_scores[c].passed
                         < test_pass_rate.category_scores[c].total})
     \o RecEach("code_quality", "improve category", code_quality.category_order,
                {c \in Range(code_quality.category_order) :
                    code_quality.category_scores[c] < 10}))

\* The source's "assume the total number of APIs is 10".
AssumedTotalApis == 10

\* BackendAnalyzer.generate_evaluation_report, after a successful load.
BackendReport(files, tests) ==
    LET api_completion == BackendEvaluateApiCompletion(files, AssumedTotalApis)
        test_pass_rate == BackendEvaluateTestPassRate(tests)
        code_quality   == BackendEvaluateCodeQuality(files)
        results == <<api_completion, test_pass_rate, code_quality>>
        summary == SummaryOf(results)
    IN  [ status             |-> "ok",
          evaluation_summary |-> EvaluationSummary(summary, BackendCalculateGrade(summary.ratio)),
          dimensions         |-> <<"api_completion", "test_pass_rate", "code_quality">>,
          results            |-> results,
          recommendations    |-> BackendGenerateRecommendations(
                                     api_completion, test_pass_rate, code_quality) ]

(***************************************************************************)
(* BugAnalyzer and ProjectAnalyzer.  Times are whole seconds; a threshold  *)
(* row is (below, score) and the last row of each table has below = inf.   *)
(***************************************************************************)
Finite(below, score) == [inf |-> FALSE, below |-> below, score |-> score]
Infinite(score) == [inf |-> TRUE, below |-> 0, score |-> score]

\* BugAnalyzer.__init__: time_thresholds.
BugTimeThresholds ==
    << Finite(1800, 10), Finite(3600, 7), Finite(7200, 4), Infinite(1) >>

\* ProjectAnalyzer.__init__: time_thresholds.
ProjectTimeThresholds ==
    << Finite(86400, 10), Finite(172800, 7), Finite(259200, 4), Infinite(1) >>

\* The threshold loop with elapsed <= threshold as its test.
RECURSIVE ThresholdScoreInclusive(_, _)
ThresholdScoreInclusive(time_thresholds, elapsed) ==
    IF time_thresholds = <<>> THEN 0
    ELSE IF time_thresholds[1].inf \/ elapsed <= time_thresholds[1].below
         THEN time_thresholds[1].score
         ELSE ThresholdScoreInclusive(Tail(time_thresholds), elapsed)

\* The loop of _evaluate_fix_efficiency and evaluate_delivery_efficiency:
\* the score of the first row with elapsed < threshold, 0 when there is
\* none.  In points.
RECURSIVE ThresholdScore(_, _)
ThresholdScore(time_thresholds, elapsed) ==
    IF time_thresholds = <<>> THEN 0
    ELSE IF time_thresholds[1].inf \/ elapsed < time_thresholds[1].below
         THEN time_thresholds[1].score
         ELSE ThresholdScore(Tail(time_thresholds), elapsed)

\* BugAnalyzer.__init__: preset_bugs.
PresetBugs == <<"connection leak", "xss", "order amount">>

\* BugAnalyzer.__init__: quality_thresholds, rows
\* (completely_fixed_flag, introduced_new_bugs_flag, score).
QualityThresholds ==
    << <<0, 0, 10>>, <<0, 1, 7>>, <<1, 0, 5>>, <<1, 1, 2>> >>

\* BugAnalyzer.evaluate_bug_discovery: every preset bug is taken as found.
\* discovery_rate is bound only when there are preset bugs.
BugEvaluateBugDiscovery(preset_bugs) ==
    LET max_score == 100
        total_bugs == Len(preset_bugs)
        discovered_bugs == Len(preset_bugs)
    IN  IF total_bugs > 0
        THEN [ total_score     |-> PyRoundDiv(discovered_bugs * max_score, total_bugs),
               max_score       |-> max_score,
               discovered_bugs |-> discovered_bugs,
               total_bugs      |-> total_bugs,
               details         |-> << [item |-> "discovered_bugs", value |-> discovered_bugs,
                                       of |-> total_bugs],
                                      [item |-> "discovery_rate", value |-> discovered_bugs,
                                       of |-> total_bugs] >> ]
        ELSE Raised("NameError")

\* BugAnalyzer._evaluate_fix_count.
BugEvaluateFixCount == [fixed_bugs |-> 2, total_discovered_bugs |-> 3]

\* BugAnalyzer._evaluate_fix_efficiency, in points.
BugEvaluateFixEfficiency(elapsed) == ThresholdScore(BugTimeThresholds, elapsed)

\* BugAnalyzer.evaluate_bug_fix, from the result of _evaluate_fix_count.
\* fix_rate is bound only when total_discovered_bugs is positive.
BugEvaluateBugFix(fix_count_result, elapsed) ==
    LET fixed_bugs == fix_count_result.fixed_bugs
        total_discovered_bugs == fix_count_result.total_discovered_bugs
        fix_efficiency_score == BugEvaluateFixEfficiency(elapsed)
    IN  IF total_discovered_bugs > 0
        THEN LET fix_count_score == PyRoundDiv(fixed_bugs * 100, total_discovered_bugs)
             IN  [ total_score |-> PyRound1(PyAdd(PyFloatOfTenths(fix_count_score),
                                                   PyFloatOfInt(fix_efficiency_score))),
                   max_score   |-> 200,
                   fixed_bugs  |-> fixed_bugs,
                   total_discovered_bugs |-> total_discovered_bugs,
                   fix_efficiency_score  |-> fix_efficiency_score,
                   details     |-> << [item |-> "fixed_bugs", value |-> fixed_bugs,
                                       of |-> total_discovered_bugs],
                                      [item |-> "fix_rate", value |-> fix_count_score, of |-> 10],
                                      [item |-> "fix_time", value |-> elapsed,
                                       of |-> fix_efficiency_score] >> ]
        ELSE Raised("NameError")

\* The loop of evaluate_fix_quality over quality_thresholds: the score of the
\* first row with completely_fixed = (completely_fixed_flag = 0) and
\* introduced_new_bugs = (introduced_new_bugs_flag = 1); 0 without one.
RECURSIVE FixQualityScore(_, _, _)
FixQualityScore(quality_thresholds, completely_fixed, introduced_new_bugs) ==
    IF quality_thresholds = <<>> THEN 0
    ELSE IF /\ completely_fixed = (quality_thresholds[1][1] = 0)
            /\ introduced_new_bugs = (quality_thresholds[1][2] = 1)
         THEN quality_thresholds[1][3]
         ELSE FixQualityScore(Tail(quality_thresholds), completely_fixed, introduced_new_bugs)

\* BugAnalyzer.evaluate_fix_quality from the two flags the source assumes.
FixQualityResult(completely_fixed, introduced_new_bugs) ==
    [ total_score |-> 10 * FixQualityScore(QualityThresholds, completely_fixed,
                                           introduced_new_bugs),
      max_score   |-> 100,
      completely_fixed    |-> completely_fixed,
      introduced_new_bugs |-> introduced_new_bugs,
      details     |-> << [item |-> "completely_fixed", value |-> completely_fixed],
                         [item |-> "introduced_new_bugs", value |-> introduced_new_bugs],
                         [item |-> "fix_quality_score",
                          value |-> 10 * FixQualityScore(QualityThresholds, completely_fixed,
                                                         introduced_new_bugs)] >> ]

\* BugAnalyzer.evaluate_fix_quality: "completely fixed, but a new bug".
BugEvaluateFixQuality == FixQualityResult(TRUE, TRUE)

\* BugAnalyzer._calculate_grade.
BugCalculateGrade(percentage) ==
    IF BigGE(percentage, PyFloatOfTenths(GradeBands[1].at)) THEN GradeBands[1].grade
    ELSE IF BigGE(percentage, PyFloatOfTenths(GradeBands[2].at)) THEN GradeBands[2].grade
    ELSE IF BigGE(percentage, PyFloatOfTenths(GradeBands[3].at)) THEN GradeBands[3].grade
    ELSE IF BigGE(percentage, PyFloatOfTenths(GradeBands[4].at)) THEN GradeBands[4].grade
    ELSE "F"

\* _generate_recommendations with the caution given only when nothing else
\* was recommended.
BugGenerateRecommendationsCautionAlone(bug_discovery, bug_fix, fix_quality) ==
    LET counts ==
            When(bug_discovery.discovered_bugs < bug_discovery.total_bugs,
                 Rec("bug_discovery", "improve bug detection",
                     <<bug_discovery.total_bugs - bug_discovery.discovered_bugs>>))
         \o When(bug_fix.fixed_bugs < bug_fix.total_discovered_bugs,
                 Rec("bug_fix", "improve bug fixing",
                     <<bug_fix.total_discovered_bugs - bug_fix.fixed_bugs>>))
    IN  OrCanned(counts \o When(fix_quality.introduced_new_bugs /\ counts = <<>>,
                                Rec("fix_quality", "avoid introducing new bugs", <<>>)))

\* BugAnalyzer._generate_recommendations.
BugGenerateRecommendations(bug_discovery, bug_fix, fix_quality) ==
    OrCanned(
        When(bug_discovery.discovered_bugs < bug_discovery.total_bugs,
             Rec("bug_discovery", "improve bug detection",
                 <<bug_discovery.total_bugs - bug_discovery.discovered_bugs>>))
     \o When(bug_fix.fixed_bugs < bug_fix.total_discovered_bugs,
             Rec("bug_fix", "improve bug fixing",
                 <<bug_fix.total_discovered_bugs - bug_fix.fixed_bugs>>))
     \o When(fix_quality.introduced_new_bugs,
             Rec("fix_quality", "avoid introducing new bugs", <<>>)))

\* BugAnalyzer.generate_evaluation_report, after a successful load.
BugReport(elapsed) ==
    LET bug_discovery == BugEvaluateBugDiscovery(PresetBugs)
        bug_fix       == BugEvaluateBugFix(BugEvaluateFixCount, elapsed)
        fix_quality   == BugEvaluateFixQuality
        results == <<bug_discovery, bug_fix, fix_quality>>
        summary == SummaryOf(results)
    IN  [ status             |-> "ok",
          evaluation_summary |-> EvaluationSummary(summary, BugCalculateGrade(summary.ratio)),
          dimensions         |-> <<"bug_discovery", "bug_fix", "fix_quality">>,
          results            |-> results,
          recommendations    |-> BugGenerateRecommendations(bug_discovery, bug_fix, fix_quality) ]

\* ProjectAnalyzer.__init__: quality_aspects (code quality 代码质量, ui
\* beauty 界面美观度, performance 性能表现, security 安全性, maintainability
\* 可维护性), weights in points.
QualityAspects ==
    << [name |-> "code_quality",    weight |-> 3],
       [name |-> "ui_beauty",       weight |-> 2],
       [name |-> "performance",     weight |-> 2],
       [name |-> "security",        weight |-> 2],
       [name |-> "maintainability", weight |-> 1] >>

\* evaluate_project_quality: the assumed quality_scores, in tenths.
QualityScores ==
    [ code_quality |-> 25, ui_beauty |-> 18, performance |-> 16,
      security |-> 17, maintainability |-> 9 ]

\* evaluate_test_pass_rate: category_weights with the assumed test_results
\* (unit 单元测试, integration 集成测试, system 系统测试).
ProjectTestResults ==
    << [name |-> "unit",        weight |-> 3, passed |-> 15, total |-> 20],
       [name |-> "integration", weight |-> 3, passed |-> 8,  total |-> 10],
       [name |-> "system",      weight |-> 4, passed |-> 4,  total |-> 5] >>

\* ProjectAnalyzer.evaluate_project_completion from the assumed counts.
\* completion_rate is bound only when total_features is positive.
ProjectCompletionResult(implemented_features, total_features) ==
    LET max_score == 100
    IN  IF total_features > 0
        THEN [ total_score          |-> PyRoundDiv(implemented_features * max_score,
                                                   total_features),
               max_score            |-> max_score,
               implemented_features |-> implemented_features,
               total_features       |-> total_features,
               details              |-> << [item |-> "implemented_features",
                                            value |-> implemented_features, of |-> total_features],
                                           [item |-> "completion_rate",
                                            value |-> implemented_features, of |-> total_features] >> ]
        ELSE Raised("NameError")

\* ProjectAnalyzer.evaluate_project_completion: "7 of the 8 core features".
ProjectEvaluateProjectCompletion == ProjectCompletionResult(7, 8)

\* ProjectAnalyzer.evaluate_test_pass_rate.
ProjectEvaluateTestPassRate(test_results) ==
    LET category_score(r) ==
            IF r.total > 0 THEN PyRoundDiv(r.passed * r.weight * 10, r.total) ELSE 0
        scores == [i \in DOMAIN test_results |-> category_score(test_results[i])]
    IN  [ total_score     |-> PyRound1(FloatSumFrom(PyFloatOfInt(0), scores)),
          max_score       |-> 100,
          passed_tests    |-> SumSeq([i \in DOMAIN test_results |-> test_results[i].passed]),
          total_tests     |-> SumSeq([i \in DOMAIN test_results |-> test_results[i].total]),
          category_scores |-> scores,
          details         |-> [i \in DOMAIN test_results |->
                                 [item |-> test_results[i].name, value |-> test_results[i].passed,
                                  of |-> test_results[i].total]]
                              \o (IF SumSeq([i \in DOMAIN test_results |-> test_results[i].total]) > 0
                                  THEN << [item |-> "overall_rate",
                                           value |-> SumSeq([i \in DOMAIN test_results |->
                                                               test_results[i].passed]),
                                           of |-> SumSeq([i \in DOMAIN test_results |->
                                                            test_results[i].total])] >>
                                  ELSE <<>>) ]

\* ProjectAnalyzer.evaluate_delivery_efficiency.
ProjectEvaluateDeliveryEfficiency(elapsed) ==
    [ total_score |-> 10 * ThresholdScore(ProjectTimeThresholds, elapsed),
      max_score   |-> 100,
      detail      |-> [item |-> "project_time", value |-> elapsed,
                       of |-> 10 * ThresholdScore(ProjectTimeThresholds, elapsed)] ]

\* A line of "details" as evaluate_project_quality formats it:
\* "<aspect>: <score>/<max_score>".
DetailLine(aspect, score, max_score) == <<aspect, ": ", score, "/", max_score>>

\* ProjectAnalyzer.evaluate_project_quality.
ProjectEvaluateProjectQuality(quality_scores) ==
    LET names == Names(QualityAspects)
        has(n) == n \in DOMAIN quality_scores
        evaluated == {n \in Range(names) : has(n)}
        scores == [i \in DOMAIN Filter(names, evaluated) |->
                     quality_scores[Filter(names, evaluated)[i]]]
    IN  [ total_score       |-> PyRound1(FloatSumFrom(PyFloatOfInt(0), scores)),
          max_score         |-> 100,
          evaluated_aspects |-> Filter(names, evaluated),
          missing_aspects   |-> Filter(names, Range(names) \ evaluated),
          details           |-> [i \in DOMAIN names |->
                                   DetailLine(names[i],
                                              IF has(names[i]) THEN quality_scores[names[i]] ELSE 0,
                                              QualityAspects[i].weight)] ]

\* ProjectAnalyzer._calculate_grade.
ProjectCalculateGrade(percentage) ==
    IF BigGE(percentage, PyFloatOfTenths(GradeBands[1].at)) THEN GradeBands[1].grade
    ELSE IF BigGE(percentage, PyFloatOfTenths(GradeBands[2].at)) THEN GradeBands[2].grade
    ELSE IF BigGE(percentage, PyFloatOfTenths(GradeBands[3].at)) THEN GradeBands[3].grade
    ELSE IF BigGE(percentage, PyFloatOfTenths(GradeBands[4].at)) THEN GradeBands[4].grade
    ELSE "F"

\* _generate_recommendations: low_quality_aspects.  details.count(aspect)
\* counts the lines that are equal to the bare aspect name.
LowQualityAspects(project_quality) ==
    LET names == Names(QualityAspects)
        count(aspect) == Cardinality({i \in DOMAIN project_quality.details :
                                         project_quality.details[i] = <<aspect>>})
        index(aspect) == CHOOSE i \in DOMAIN project_quality.details :
                             project_quality.details[i] = <<aspect>>
        low == {n \in Range(names) :
                  \/ n \notin Range(project_quality.evaluated_aspects)
                  \/ /\ n \in Range(project_quality.evaluated_aspects)
                     /\ count(n) > 0
                     /\ project_quality.details[index(n)][3] * 10
                          < 7 * 10 * WeightOf(QualityAspects, n)}
    IN  Filter(names, low)

\* ProjectAnalyzer._generate_recommendations.
ProjectGenerateRecommendations(project_completion, test_pass_rate, delivery_efficiency, project_quality) ==
    OrCanned(
        When(project_completion.implemented_features < project_completion.total_features,
             Rec("project_completion", "complete remaining features",
                 <<project_completion.total_features
                     - project_completion.implemented_features>>))
     \o When(test_pass_rate.passed_tests < test_pass_rate.total_tests,
             Rec("test_pass_rate", "fix failed tests",
                 <<test_pass_rate.total_tests - test_pass_rate.passed_tests>>))
     \o When(delivery_efficiency.total_score < 70,
             Rec("delivery_efficiency", "optimise the development process", <<>>))
     \o When(LowQualityAspects(project_quality) # <<>>,
             Rec("project_quality", "raise quality of aspects",
                 LowQualityAspects(project_quality))))

\* ProjectAnalyzer.generate_evaluation_report, after a successful load.
ProjectReport(elapsed) ==
    LET project_completion  == ProjectEvaluateProjectCompletion
        test_pass_rate      == ProjectEvaluateTestPassRate(ProjectTestResults)
        delivery_efficiency == ProjectEvaluateDeliveryEfficiency(elapsed)
        project_quality     == ProjectEvaluateProjectQuality(QualityScores)
        results == <<project_completion, test_pass_rate, delivery_efficiency, project_quality>>
        summary == SummaryOf(results)
    IN  [ status             |-> "ok",
          evaluation_summary |-> EvaluationSummary(summary, ProjectCalculateGrade(summary.ratio)),
          dimensions         |-> <<"project_completion", "test_pass_rate",
                                   "delivery_efficiency", "project_quality">>,
          results            |-> results,
          recommendations    |-> ProjectGenerateRecommendations(
                                     project_completion, test_pass_rate,
                                     delivery_efficiency, project_quality) ]

(***************************************************************************)
(* _generate_markdown_report.  The document is the sequence of its lines,  *)
(* top to bottom; a line is a record with its kind (title, summary,        *)
(* heading, criteria, result, detail, recommendation) and the values it    *)
(* prints.  Blank lines and the fixed sub-headings are left out.           *)
(***************************************************************************)
\* report[dimension], of the report rpt.
Result(rpt, dimension) ==
    rpt.results[CHOOSE i \in DOMAIN rpt.dimensions : rpt.dimensions[i] = dimension]

Title(name) == [kind |-> "title", text |-> name]

\* "- **<field>**: <value>" of the summary block.
SummaryLine(field, value) == [kind |-> "summary", field |-> field, value |-> value]

\* "- **<field>**: <value>" under a section's results.
ResultLine(field, value) == [kind |-> "result", field |-> field, value |-> value]

\* ', '.join(items) if items else '无'.
JoinOrNone(items) == IF items # <<>> THEN Join(", ", items) ELSE <<"none">>

\* for detail in details: markdown += f"- {detail}\n".
DetailLines(details) ==
    [i \in DOMAIN details |-> [kind |-> "detail", detail |-> details[i]]]

\* enumerate(recommendations) without its start of 1.
RecommendationLinesFromZero(recommendations) ==
    [i \in DOMAIN recommendations |->
        [kind |-> "recommendation", number |-> i - 1, text |-> recommendations[i].text]]

\* for i, recommendation in enumerate(report["recommendations"], 1):
\*     markdown += f"{i}. {recommendation}\n"
RecommendationLines(recommendations) ==
    [i \in DOMAIN recommendations |->
        [kind |-> "recommendation", number |-> i, text |-> recommendations[i].text]]

\* "## <number>. <name> (<total_score>/<max_score>分)", the restatement of the
\* scoring rule, the result lines and the detail lines of one dimension.
Section(number, dimension, result, result_lines, detail_lines) ==
    << [kind |-> "heading", number |-> number, dimension |-> dimension,
        total_score |-> result.total_score, max_score |-> result.max_score],
       [kind |-> "criteria", dimension |-> dimension] >>
    \o result_lines \o detail_lines

\* The summary block of requirement.py: date, total and percentage.
RequirementSummaryBlock(summary) ==
    << SummaryLine("evaluation_date", summary.evaluation_date),
       SummaryLine("total_score", <<summary.total_score, summary.max_total_score>>),
       SummaryLine("percentage", summary.percentage) >>

\* The summary block of the other four: date, total, percentage and grade.
SummaryBlock(summary) ==
    << SummaryLine("evaluation_date", summary.evaluation_date),
       SummaryLine("total_score", <<summary.total_score, summary.max_total_score>>),
       SummaryLine("percentage", summary.percentage),
       SummaryLine("grade", summary.grade) >>

\* RequirementAnalyzer._generate_markdown_report.
RequirementGenerateMarkdownReport(rpt) ==
    LET function_coverage      == Result(rpt, "function_coverage")
        structure_completeness == Result(rpt, "structure_completeness")
        description_clarity    == Result(rpt, "description_clarity")
        tech_requirements      == Result(rpt, "tech_requirements")
        ears_compliance        == Result(rpt, "ears_compliance")
    IN  <<Title("requirement")>>
     \o RequirementSummaryBlock(rpt.evaluation_summary)
     \o Section(1, "function_coverage", function_coverage,
                <<ResultLine("matched_keywords", JoinOrNone(function_coverage.matched_keywords)),
                  ResultLine("unmatched_keywords", JoinOrNone(function_coverage.unmatched_keywords))>>,
                DetailLines(function_coverage.details))
     \o Section(2, "structure_completeness", structure_completeness,
                <<ResultLine("found_sections", JoinOrNone(structure_completeness.found_sections)),
                  ResultLine("missing_sections", JoinOrNone(structure_completeness.missing_sections))>>,
                DetailLines(structure_completeness.details))
     \o Section(3, "description_clarity", description_clarity,
                <<ResultLine("quantifiable_count", description_clarity.quantifiable_count),
                  ResultLine("category_scores",
                             [i \in DOMAIN QuantifiableCategories |->
                                <<QuantifiableCategories[i],
                                  description_clarity.category_scores[QuantifiableCategories[i]]>>])>>,
                DetailLines(description_clarity.details))
     \o Section(4, "tech_requirements", tech_requirements,
                <<ResultLine("matched_keywords", JoinOrNone(tech_requirements.matched_keywords)),
                  ResultLine("unmatched_keywords", JoinOrNone(tech_requirements.unmatched_keywords))>>,
                DetailLines(tech_requirements.details))
     \o Section(5, "ears_compliance", ears_compliance,
                <<ResultLine("ears_patterns_found", ears_compliance.ears_patterns_found)>>,
                DetailLines(ears_compliance.details))
     \o RecommendationLines(rpt.recommendations)

\* FrontendAnalyzer._generate_markdown_report.
FrontendGenerateMarkdownReport(rpt) ==
    LET function_coverage == Result(rpt, "function_coverage")
        ui_beauty         == Result(rpt, "ui_beauty")
        code_quality      == Result(rpt, "code_quality")
    IN  <<Title("frontend")>>
     \o SummaryBlock(rpt.evaluation_summary)
     \o Section(1, "function_coverage", function_coverage,
                <<ResultLine("matched_keywords", JoinOrNone(function_coverage.matched)),
                  ResultLine("unmatched_keywords", JoinOrNone(function_coverage.unmatched))>>,
                DetailLines(function_coverage.details))
     \o Section(2, "ui_beauty", ui_beauty,
                <<ResultLine("evaluated_aspects", JoinOrNone(ui_beauty.matched)),
                  ResultLine("missing_aspects", JoinOrNone(ui_beauty.unmatched))>>,
                DetailLines(ui_beauty.details))
     \o Section(3, "code_quality", code_quality,
                <<ResultLine("evaluated_aspects", JoinOrNone(code_quality.matched)),
                  ResultLine("missing_aspects", JoinOrNone(code_quality.unmatched))>>,
                DetailLines(code_quality.details))
     \o RecommendationLines(rpt.recommendations)

\* BackendAnalyzer._generate_markdown_report.
BackendGenerateMarkdownReport(rpt) ==
    LET api_completion == Result(rpt, "api_completion")
        test_pass_rate == Result(rpt, "test_pass_rate")
        code_quality   == Result(rpt, "code_quality")
    IN  <<Title("backend")>>
     \o SummaryBlock(rpt.evaluation_summary)
     \o Section(1, "api_completion", api_completion,
                <<ResultLine("implemented_apis",
                             <<api_completion.implemented_apis, api_completion.total_apis>>)>>,
                DetailLines(api_completion.details))
     \o Section(2, "test_pass_rate", test_pass_rate,
                [i \in DOMAIN test_pass_rate.category_order |->
                   ResultLine(test_pass_rate.category_order[i],
                              test_pass_rate.category_scores[test_pass_rate.category_order[i]])],
                DetailLines(test_pass_rate.details))
     \o Section(3, "code_quality", code_quality,
                [i \in DOMAIN code_quality.category_order |->
                   ResultLine(code_quality.category_order[i],
                              code_quality.category_scores[code_quality.category_order[i]])],
                DetailLines(code_quality.details))
     \o RecommendationLines(rpt.recommendations)

\* BugAnalyzer._generate_markdown_report.
BugGenerateMarkdownReport(rpt) ==
    LET bug_discovery == Result(rpt, "bug_discovery")
        bug_fix       == Result(rpt, "bug_fix")
        fix_quality   == Result(rpt, "fix_quality")
    IN  <<Title("bug")>>
     \o SummaryBlock(rpt.evaluation_summary)
     \o Section(1, "bug_discovery", bug_discovery,
                <<ResultLine("discovered_bugs",
                             <<bug_discovery.discovered_bugs, bug_discovery.total_bugs>>)>>,
                DetailLines(bug_discovery.details))
     \o Section(2, "bug_fix", bug_fix,
                <<ResultLine("fixed_bugs", <<bug_fix.fixed_bugs, bug_fix.total_discovered_bugs>>),
                  ResultLine("fix_efficiency_score", bug_fix.fix_efficiency_score)>>,
                DetailLines(bug_fix.details))
     \o Section(3, "fix_quality", fix_quality, <<>>, DetailLines(fix_quality.details))
     \o RecommendationLines(rpt.recommendations)

\* ProjectAnalyzer._generate_markdown_report.
ProjectGenerateMarkdownReport(rpt) ==
    LET project_completion  == Result(rpt, "project_completion")
        test_pass_rate      == Result(rpt, "test_pass_rate")
        delivery_efficiency == Result(rpt, "delivery_efficiency")
        project_quality     == Result(rpt, "project_quality")
    IN  <<Title("project")>>
     \o SummaryBlock(rpt.evaluation_summary)
     \o Section(1, "project_completion", project_completion,
                <<ResultLine("implemented_features",
                             <<project_completion.implemented_features,
                               project_completion.total_features>>)>>,
                DetailLines(project_completion.details))
     \o Section(2, "test_pass_rate", test_pass_rate,
                <<ResultLine("passed_tests",
                             <<test_pass_rate.passed_tests, test_pass_rate.total_tests>>)>>,
                DetailLines(test_pass_rate.details))
     \o Section(3, "delivery_efficiency", delivery_efficiency, <<>>,
                DetailLines(<<delivery_efficiency.detail>>))
     \o Section(4, "project_quality", project_quality, <<>>,
                DetailLines(project_quality.details))
     \o RecommendationLines(rpt.recommendations)

\* The file after save_report_to_file wrote document to it.
Written(document) == [written |-> TRUE, document |-> document]

\* main: `"error" in report`.
HasError(rpt) == rpt.status = "error"

(***************************************************************************)
(* process_scores.py.  A scores mapping (a dict, which keeps insertion     *)
(* order) is the sequence of its entries, each with the document name and  *)
(* the floats total and rate.                                              *)
(***************************************************************************)
\* float("k/100") as parse_table reads it: the binary64 nearest to k/100.
PyFloatOfHundredths(k) == PyTrueDiv(PyFloatOfInt(k), 100)

Entry(name, total, rate) == [name |-> name, total |-> total, rate |-> rate]

Keys(scores) == {scores[k].name : k \in DOMAIN scores}

\* scores.get(name, (0, 0)): adding the int 0 to a float gives the float.
Get(scores, name) ==
    IF name \in Keys(scores)
    THEN scores[CHOOSE k \in DOMAIN scores : scores[k].name = name]
    ELSE Entry(name, BigZero, BigZero)

\* merge_scores with the rates of a name present on both sides averaged.
MergeScoresAveragedRate(scores1, scores2, all_names) ==
    [k \in DOMAIN all_names |->
        LET name   == all_names[k]
            score1 == Get(scores1, name)
            score2 == Get(scores2, name)
            sum    == PyAdd(score1.rate, score2.rate)
        IN  Entry(name, PyAdd(score1.total, score2.total),
                  IF name \in Keys(scores1) \cap Keys(scores2)
                  THEN PyTrueDiv(sum, 2) ELSE sum)]

\* merge_scores.  all_names is the set of names in the order the loop
\* `for name in all_names` meets them, which is the order of insertion into
\* merged; Python leaves the iteration order of a set of strings open.
MergeScores(scores1, scores2, all_names) ==
    [k \in DOMAIN all_names |->
        LET name   == all_names[k]
            score1 == Get(scores1, name)
            score2 == Get(scores2, name)
        IN  Entry(name, PyAdd(score1.total, score2.total),
                  PyAdd(score1.rate, score2.rate))]

\* The sequences that list the elements of set once each.
RECURSIVE Orders(_)
Orders(set) ==
    IF set = {} THEN {<<>>}
    ELSE UNION {{<<x>> \o rest : rest \in Orders(set \ {x})} : x \in set}

\* x put into a list sorted by total, descending, behind every element
\* whose total is not below its own.
RECURSIVE InsertDescending(_, _)
InsertDescending(sorted, x) ==
    IF sorted = <<>> THEN <<x>>
    ELSE IF BigGE(sorted[1].total, x.total)
         THEN <<sorted[1]>> \o InsertDescending(Tail(sorted), x)
         ELSE <<x>> \o sorted

\* sorted(scores.items(), key=lambda x: x[1][0], reverse=True): a stable
\* sort, and reverse=True keeps equal elements in their original order.
RECURSIVE SortedByTotal(_)
SortedByTotal(items) ==
    IF items = <<>> THEN <<>>
    ELSE InsertDescending(SortedByTotal(SubSeq(items, 1, Len(items) - 1)), items[Len(items)])

\* sorted(...) ascending, then reversed.
RECURSIVE SortedAscendingReversed(_)
SortedAscendingReversed(items) ==
    IF items = <<>> THEN <<>>
    ELSE InsertDescending(SortedAscendingReversed(Tail(items)), items[1])

\* f"{total_score:>6.1f}" and f"{score_rate:>6.2f}": the decimal nearest to
\* the float, as a number of tenths and of hundredths.
FormatTenths(x) == BigToNearestInt(BigMulSmall(x, 10), "zero")
FormatHundredths(x) == BigToNearestInt(BigMulSmall(x, 100), "zero")

\* One data line of print_sorted_scores.
ScoreLine(entry) ==
    [name |-> entry.name, total |-> FormatTenths(entry.total),
     rate |-> FormatHundredths(entry.rate)]

\* print_sorted_scores with the entries printed in that order.
PrintSortedScoresAscendingReversed(scores) ==
    LET sorted_scores == SortedAscendingReversed(scores)
    IN  [header |-> <<"name total rate", "----">>,
         lines  |-> [k \in DOMAIN sorted_scores |-> ScoreLine(sorted_scores[k])]]

\* print_sorted_scores: what it prints, the two header lines and then one
\* line for each entry.
PrintSortedScores(scores) ==
    LET sorted_scores == SortedByTotal(scores)
    IN  [header |-> <<"name total rate", "----">>,
         lines  |-> [k \in DOMAIN sorted_scores |-> ScoreLine(sorted_scores[k])]]

(***************************************************************************)
(* The requirement documents under test.  Three base documents (an empty   *)
(* one, a complete one and one whose total is exactly 45.0 of 75), and     *)
(* every document that differs from a base in the features one evaluator   *)
(* reads.  The literals are substrings of one another as listed, so a text *)
(* that holds the longer one holds the shorter one too.                    *)
(***************************************************************************)
MaxCount == 5            \* most matches of one quantifiable category
MaxPatternMatches == 1   \* most matches of one EARS pattern

\* <<a, b>>: literal a is a substring of literal b.
Substrings ==
    { <<"api", "fastapi">>, <<"data", "database">>,
      <<"function", "sec_func">>, <<"function", "sec_nonfunc">>,
      <<"sec_func", "sec_nonfunc">>,
      <<"standard", "sec_accept">>, <<"acceptance", "sec_accept">>,
      <<"user", "sec_story">>, <<"user", "user_register">> }

CloseWords(words) == words \cup {p[1] : p \in {q \in Substrings : q[2] \in words}}

\* 在.*条件下，当.*时，系统应当 contains a match of 当.*时，系统应当 and of 系统应当.
CloseEars(ears) ==
    [p \in DOMAIN ears |->
        IF p \in {"ears_plain", "ears_event"} /\ ears["ears_complex"] > ears[p]
        THEN ears["ears_complex"] ELSE ears[p]]

\* Every alternative of the 普通需求 and 事件驱动 patterns holds 系统, and
\* the 复杂需求 pattern holds 条件 as well.
EarsWords(ears) ==
    (IF ears["ears_plain"] > 0 \/ ears["ears_event"] > 0 \/ ears["ears_complex"] > 0
     THEN {"system"} ELSE {})
    \cup (IF ears["ears_complex"] > 0 THEN {"condition"} ELSE {})

Text(words, long, counts, ears) ==
    [ words  |-> CloseWords(words \cup EarsWords(ears)),
      long   |-> long \cap CloseWords(words),
      counts |-> counts,
      ears   |-> CloseEars(ears) ]

SectionNames == Range(Names(StructureCriteria))
TechNames == Range(Names(TechRequirements))
FunctionKeywordNames == Range(Names(RequirementFunctionKeywords))
ContextRows ==
    {Range(StructureCriteria[i].keywords) : i \in DOMAIN StructureCriteria}
        \cup {Range(TechRequirements[i].keywords) : i \in DOMAIN TechRequirements}
AllWords == FunctionKeywordNames \cup SectionNames \cup TechNames \cup UNION ContextRows

EmptyText ==
    Text({}, {}, [c \in Range(QuantifiableCategories) |-> 0],
         [p \in Range(EarsPatterns) |-> 0])

CompleteText ==
    Text(AllWords, SectionNames, [c \in Range(QuantifiableCategories) |-> 3],
         [p \in Range(EarsPatterns) |-> 1])

\* 登录 and 分类浏览; every section, 技术约束 with a short body; mysql with
\* 数据库 and 存储; 3 + 3 + 1 + 1 quantified items; every EARS pattern.
BoundaryText ==
    Text({"login", "category_browse", "mysql", "database", "storage",
          "frontend", "backend", "module", "performance", "security",
          "as_a", "i_want"} \cup SectionNames,
         SectionNames \ {"sec_tech"},
         [c \in Range(QuantifiableCategories) |->
             IF c \in {"cat_time", "cat_quantity"} THEN 3 ELSE 1],
         [p \in Range(EarsPatterns) |-> 1])

BaseTexts == {EmptyText, CompleteText, BoundaryText}

\* base with the literals of group replaced by those of present.
WithWords(base, group, present, long) ==
    Text((base.words \ group) \cup present, long, base.counts, base.ears)

VaryFunctionKeywords(base) ==
    {WithWords(base, FunctionKeywordNames, s, base.long) : s \in SUBSET FunctionKeywordNames}

VarySections(base) ==
    UNION {{WithWords(base, SectionNames, s, l) : l \in SUBSET s} : s \in SUBSET SectionNames}

VaryContext(base) ==
    UNION {{WithWords(base, row, s, base.long) : s \in SUBSET row} : row \in ContextRows}

VaryTech(base) ==
    {WithWords(base, TechNames, s, base.long) : s \in SUBSET TechNames}

VaryCounts(base) ==
    {Text(base.words, base.long, c, base.ears) :
        c \in [Range(QuantifiableCategories) -> 0..MaxCount]}

VaryEars(base) ==
    {Text(base.words, base.long, base.counts, e) :
        e \in [Range(EarsPatterns) -> 0..MaxPatternMatches]}

\* Every function keyword, section and technology and nothing around them:
\* short sections, one quantified item of each category.
ThinText ==
    Text(FunctionKeywordNames \cup SectionNames \cup TechNames, {},
         [c \in Range(QuantifiableCategories) |-> 1],
         [p \in Range(EarsPatterns) |-> 0])

RequirementTexts ==
    UNION {VaryFunctionKeywords(b) \cup VarySections(b) \cup VaryContext(b)
             \cup VaryTech(b) \cup VaryCounts(b) \cup VaryEars(b) : b \in BaseTexts}
        \cup VaryEars(ThinText)

(***************************************************************************)
(* The other artifacts under test.                                         *)
(***************************************************************************)
\* Frontend files: every combination of the twelve configured literals.
FrontendWords ==
    Range(Names(FrontendFunctionKeywords)) \cup Range(Names(UiAspects))
        \cup Range(Names(CodeQualityAspects))

FrontendTexts == {[words |-> w] : w \in SUBSET FrontendWords}

\* Backend directories.  MaxApi route matches reach past the assumed total
\* of ten; the quality counts sit on both sides of every tier and of the
\* recommendation threshold.
MaxApi == 12

QualityLevels == {0, 5, 6, 9, 10, 20, 21, 50, 51}

\* An identifier is what the naming pattern matches, and every route match
\* and every structure match holds one of its own; any other match lies
\* inside one.
WellFormedFiles(files) ==
    /\ files.quality["naming"] >= files.api
    /\ files.quality["naming"] >= files.quality["structure"]
    /\ (\E c \in DOMAIN files.quality : files.quality[c] > 0) => files.quality["naming"] > 0

QualityCounts ==
    {[c \in Range(Names(QualityCategories)) |-> IF c = varied THEN level ELSE base] :
        varied \in Range(Names(QualityCategories)), level \in QualityLevels,
        base \in QualityLevels}

BackendFiles ==
    {files \in [api : 0..MaxApi, quality : QualityCounts] : WellFormedFiles(files)}

\* test_files before load_test_files: no file, so no match.
NoTests == [c \in Range(Names(TestCategories)) |-> 0]

\* Elapsed seconds (end_time - start_time) around every threshold, around
\* zero and on the negative side.
ThresholdDelta == 2

Near(points) == UNION {(t - ThresholdDelta)..(t + ThresholdDelta) : t \in points}

BugElapsed == Near({-7200, -1800, 0, 1800, 3600, 7200})

ProjectElapsed == Near({-259200, -86400, 0, 86400, 172800, 259200})

\* The artifact path on disk: nothing there, a file or a directory that is
\* there and cannot be read as UTF-8 text, or one that can.
Absent == [exists |-> FALSE]
Unreadable == [exists |-> TRUE, readable |-> FALSE]
File(text) == [exists |-> TRUE, readable |-> TRUE, text |-> text]
Directory(files) == [exists |-> TRUE, readable |-> TRUE, files |-> files]
ProjectDirectory == [exists |-> TRUE, readable |-> TRUE]
CodeFiles(buggy, fixed) == [buggy |-> buggy, fixed |-> fixed, readable |-> TRUE]
UnreadableCodeFiles == [buggy |-> TRUE, fixed |-> TRUE, readable |-> FALSE]

\* output_report_file as main takes it from sys.argv: a directory part and a
\* file part, either of which may be empty ("report.md", "output/").
OutputPath(dirname, basename) == [dirname |-> dirname, basename |-> basename]
DefaultOutput == OutputPath("output", "report.md")
OutputPaths == {DefaultOutput, OutputPath("", "report.md"), OutputPath("output", "")}

\* Nothing loaded, nothing called.
NoContent == [loaded |-> FALSE]
Args(elapsed, output_report_file) ==
    [elapsed |-> elapsed, output_report_file |-> output_report_file]
NoArgs == Args(0, DefaultOutput)
NoCall == [fn |-> None]
NoRet == [done |-> FALSE]
NoOutput == [written |-> FALSE]

Returned(value) == [done |-> TRUE, value |-> value]

\* main has made the output directory and has not ended.
Running == call.fn = "main" /\ ~ret.done

\* load_requirement_file, load_frontend_file, load_backend_files and
\* load_project_files: False when the path does not exist, and False when
\* open or read raises, which the except clause catches.
LoadFile(path) == path.exists /\ path.readable

(***************************************************************************)
(* The analyzers as a state machine: one analyzer object over the files    *)
(* on disk, and one call of generate_evaluation_report.                    *)
(***************************************************************************)
Init ==
    /\ profile \in {"requirement", "frontend", "backend", "bug", "project"}
    /\ disk \in CASE profile = "requirement" ->
                        {File(t) : t \in RequirementTexts} \cup {Unreadable, Absent}
                  [] profile = "frontend" -> {File(t) : t \in FrontendTexts} \cup {Unreadable, Absent}
                  [] profile = "backend" ->
                        {Directory(f) : f \in BackendFiles} \cup {Unreadable, Absent}
                  [] profile = "bug" ->
                        {CodeFiles(b, f) : b \in BOOLEAN, f \in BOOLEAN} \cup {UnreadableCodeFiles}
                  [] profile = "project" -> {ProjectDirectory, Unreadable, Absent}
    /\ args \in CASE profile = "bug" -> {Args(e, DefaultOutput) : e \in BugElapsed}
                  [] profile = "project" -> {Args(e, DefaultOutput) : e \in ProjectElapsed}
                  [] OTHER -> {NoArgs}
    /\ content = NoContent
    /\ report = NoReport
    /\ previous = NoReport
    /\ calls = 1
    /\ clock = 0
    /\ output = NoOutput
    /\ call = NoCall
    /\ ret = NoRet

\* main, from its first statement to os.makedirs(os.path.dirname(
\* output_report_file), exist_ok=True).  The call stands outside every try:
\* with an empty directory part it raises FileNotFoundError and main ends
\* there.
MainMakedirs ==
    /\ call = NoCall
    /\ call' = [fn |-> "main"]
    /\ ret' = IF args.output_report_file.dirname = ""
              THEN Returned(Raised("FileNotFoundError"))
              ELSE ret
    /\ UNCHANGED <<profile, disk, args, content, report, previous, calls, clock, output>>

\* RequirementAnalyzer.generate_evaluation_report: load_requirement_file,
\* then the five evaluators, the summary and the recommendations.
RequirementGenerateEvaluationReport ==
    /\ profile = "requirement"
    /\ Running
    /\ calls > 0
    /\ calls' = calls - 1
    /\ previous' = report
    /\ IF ~LoadFile(disk)
       THEN /\ report' = ErrorReport
            /\ UNCHANGED content
       ELSE /\ content' = [loaded |-> TRUE, text |-> disk.text]
            /\ report' = RequirementReport(disk.text)
    /\ UNCHANGED <<profile, disk, args, clock, output, call, ret>>

\* FrontendAnalyzer.generate_evaluation_report.
FrontendGenerateEvaluationReport ==
    /\ profile = "frontend"
    /\ Running
    /\ calls > 0
    /\ calls' = calls - 1
    /\ previous' = report
    /\ IF ~LoadFile(disk)
       THEN /\ report' = ErrorReport
            /\ UNCHANGED content
       ELSE /\ content' = [loaded |-> TRUE, text |-> disk.text]
            /\ report' = FrontendReport(disk.text)
    /\ UNCHANGED <<profile, disk, args, clock, output, call, ret>>

\* self.test_files: empty until load_test_files has put files into it.
TestFiles(analyzer) == IF "tests" \in DOMAIN analyzer THEN analyzer.tests ELSE NoTests

\* A directory of test files handed to load_test_files: the matches of the
\* test patterns in the files that can be read before one, if any, cannot.
TestDirectory(readable, tests) == [exists |-> TRUE, readable |-> readable, tests |-> tests]

TestCounts ==
    {NoTests,
     [c \in Range(Names(TestCategories)) |-> IF c = "test_performance" THEN 1 ELSE 0],
     [c \in Range(Names(TestCategories)) |-> 2]}

TestDirectories ==
    {Absent} \cup {TestDirectory(r, t) : r \in BOOLEAN, t \in TestCounts}

\* BackendAnalyzer.load_swagger_doc(swagger_file_path), which main calls
\* once the backend directory is known to exist: swagger_doc holds the text
\* when the file could be read and stays empty otherwise.
LoadSwaggerDoc ==
    /\ profile = "backend"
    /\ Running
    /\ disk.exists
    /\ "swagger_doc" \notin DOMAIN content
    /\ \E swagger_file \in {Absent, Unreadable, File("swagger")} :
           content' = IF LoadFile(swagger_file)
                      THEN [swagger_doc |-> swagger_file.text] @@ content
                      ELSE content
    /\ UNCHANGED <<profile, disk, args, report, previous, calls, clock, output, call, ret>>

\* BackendAnalyzer.load_test_files(test_dir_path), once on an analyzer:
\* every file read goes into test_files as it is read, so the files read
\* before one that raises stay there when the method returns False.  The
\* field load_test_files keeps what the call returned.
LoadTestFiles ==
    /\ profile = "backend"
    /\ Running
    /\ "load_test_files" \notin DOMAIN content
    /\ \E test_dir \in TestDirectories :
           content' = IF test_dir.exists
                      THEN [tests |-> test_dir.tests, load_test_files |-> test_dir.readable]
                               @@ content
                      ELSE [load_test_files |-> FALSE] @@ content
    /\ UNCHANGED <<profile, disk, args, report, previous, calls, clock, output, call, ret>>

\* BackendAnalyzer.generate_evaluation_report: load_backend_files, then the
\* three evaluators over backend_files and test_files.
BackendGenerateEvaluationReport ==
    /\ profile = "backend"
    /\ Running
    /\ calls > 0
    /\ calls' = calls - 1
    /\ previous' = report
    /\ IF ~LoadFile(disk)
       THEN /\ report' = ErrorReport
            /\ UNCHANGED content
       ELSE /\ content' = [loaded |-> TRUE, files |-> disk.files, tests |-> TestFiles(content)]
                               @@ content
            /\ report' = BackendReport(disk.files, TestFiles(content))
    /\ UNCHANGED <<profile, disk, args, clock, output, call, ret>>

\* load_code_files content with either file.
BugLoadCodeFilesEither(files) == files.buggy \/ files.fixed

\* BugAnalyzer.load_code_files: False unless both files exist, and False
\* when reading either raises.
BugLoadCodeFiles(files) == files.buggy /\ files.fixed /\ files.readable

\* BugAnalyzer.generate_evaluation_report(start_time, end_time).
BugGenerateEvaluationReport ==
    /\ profile = "bug"
    /\ Running
    /\ calls > 0
    /\ calls' = calls - 1
    /\ previous' = report
    /\ IF ~BugLoadCodeFiles(disk)
       THEN /\ report' = ErrorReport
            /\ UNCHANGED content
       ELSE /\ content' = [loaded |-> TRUE]
            /\ report' = BugReport(args.elapsed)
    /\ UNCHANGED <<profile, disk, args, clock, output, call, ret>>

\* ProjectAnalyzer.generate_evaluation_report(start_time, end_time).
ProjectGenerateEvaluationReport ==
    /\ profile = "project"
    /\ Running
    /\ calls > 0
    /\ calls' = calls - 1
    /\ previous' = report
    /\ IF ~LoadFile(disk)
       THEN /\ report' = ErrorReport
            /\ UNCHANGED content
       ELSE /\ content' = [loaded |-> TRUE]
            /\ report' = ProjectReport(args.elapsed)
    /\ UNCHANGED <<profile, disk, args, clock, output, call, ret>>

\* save_report_to_file(report, output_file) as main calls it: after a call
\* whose report holds no "error".  A report the document cannot be made of
\* raises inside the try, before the file is opened, and so does open on a
\* path without a file part; the except clause catches both, nothing is
\* written and the method returns False.
SaveReportToFile(document) ==
    /\ Running
    /\ report # NoReport
    /\ ~HasError(report)
    /\ output' = IF /\ "evaluation_summary" \in DOMAIN report
                    /\ args.output_report_file.basename # ""
                 THEN Written(document)
                 ELSE output
    /\ UNCHANGED <<profile, disk, args, content, report, previous, calls, clock, call, ret>>

\* RequirementAnalyzer.save_report_to_file.
RequirementSaveReportToFile ==
    /\ profile = "requirement"
    /\ SaveReportToFile(RequirementGenerateMarkdownReport(report))

\* FrontendAnalyzer.save_report_to_file.
FrontendSaveReportToFile ==
    /\ profile = "frontend"
    /\ SaveReportToFile(FrontendGenerateMarkdownReport(report))

\* BackendAnalyzer.save_report_to_file.
BackendSaveReportToFile ==
    /\ profile = "backend"
    /\ SaveReportToFile(BackendGenerateMarkdownReport(report))

\* BugAnalyzer.save_report_to_file.
BugSaveReportToFile ==
    /\ profile = "bug"
    /\ SaveReportToFile(BugGenerateMarkdownReport(report))

\* ProjectAnalyzer.save_report_to_file.
ProjectSaveReportToFile ==
    /\ profile = "project"
    /\ SaveReportToFile(ProjectGenerateMarkdownReport(report))

\* One run of main: one call of generate_evaluation_report, then the save.
Next ==
    \/ MainMakedirs
    \/ RequirementGenerateEvaluationReport
    \/ FrontendGenerateEvaluationReport
    \/ BackendGenerateEvaluationReport
    \/ BugGenerateEvaluationReport
    \/ ProjectGenerateEvaluationReport
    \/ RequirementSaveReportToFile
    \/ FrontendSaveReportToFile
    \/ BackendSaveReportToFile
    \/ BugSaveReportToFile
    \/ ProjectSaveReportToFile
    \/ LoadSwaggerDoc

Spec == Init /\ [][Next]_vars

(***************************************************************************)
(* The same artifact evaluated more than once: MaxCalls calls of           *)
(* generate_evaluation_report, on one analyzer or on a fresh one, while    *)
(* the days pass.                                                          *)
(***************************************************************************)
MaxCalls == 2
MaxDay == 1

InitTwice ==
    /\ profile \in {"requirement", "frontend", "backend", "bug", "project"}
    /\ disk \in CASE profile = "requirement" -> {File(t) : t \in BaseTexts} \cup {Unreadable, Absent}
                  [] profile = "frontend" ->
                        {File([words |-> FrontendWords]), File([words |-> {}]), Unreadable, Absent}
                  [] profile = "backend" ->
                        {Directory(f) : f \in {g \in BackendFiles :
                                                  /\ g.api \in {0, MaxApi}
                                                  /\ \A c \in DOMAIN g.quality :
                                                         g.quality[c] = g.quality["naming"]}}
                            \cup {Unreadable, Absent}
                  [] profile = "bug" ->
                        {CodeFiles(b, f) : b \in BOOLEAN, f \in BOOLEAN} \cup {UnreadableCodeFiles}
                  [] profile = "project" -> {ProjectDirectory, Unreadable, Absent}
    /\ args \in CASE profile = "bug" -> {Args(e, o) : e \in {1800, 3600}, o \in OutputPaths}
                  [] profile = "project" -> {Args(e, o) : e \in {86400, 172800}, o \in OutputPaths}
                  [] OTHER -> {Args(0, o) : o \in OutputPaths}
    /\ content = NoContent
    /\ report = NoReport
    /\ previous = NoReport
    /\ calls = MaxCalls
    /\ clock = 0
    /\ output = NoOutput
    /\ call = NoCall
    /\ ret = NoRet

\* Midnight passes.
Tick ==
    /\ clock < MaxDay
    /\ clock' = clock + 1
    /\ UNCHANGED <<profile, disk, args, content, report, previous, calls, output, call, ret>>

\* A fresh analyzer instance over the same paths: nothing loaded yet.
NewAnalyzer ==
    /\ content # NoContent
    /\ content' = NoContent
    /\ UNCHANGED <<profile, disk, args, report, previous, calls, clock, output, call, ret>>

NextTwice ==
    \/ Next
    \/ Tick
    \/ NewAnalyzer

SpecTwice == InitTwice /\ [][NextTwice]_vars

\* The same with load_test_files, which no main calls, among the operations
\* on the backend analyzer.
NextBackend ==
    \/ NextTwice
    \/ LoadTestFiles

SpecBackend == InitTwice /\ [][NextBackend]_vars

(***************************************************************************)
(* batch_evaluate: the requirement documents that glob found, evaluated    *)
(* one after another, and the summary table printed at the end.            *)
(***************************************************************************)
MaxBatch == 3

\* The documents of a batch: the base texts, the empty one with one function
\* keyword, and the boundary one with one function keyword less.
BatchTexts ==
    BaseTexts
        \cup {WithWords(EmptyText, FunctionKeywordNames, {k}, {}) : k \in {"login", "book_detail"}}
        \cup {WithWords(BoundaryText, FunctionKeywordNames, {"login"}, BoundaryText.long)}

\* requirement_files: up to MaxBatch documents, each readable or not.
Corpora ==
    UNION {[1..n -> {Unreadable} \cup {File(t) : t \in BatchTexts}] : n \in 0..MaxBatch}

InitBatch ==
    /\ profile = "requirement"
    /\ disk \in Corpora
    /\ args = NoArgs
    /\ content = NoContent
    /\ report = NoReport
    /\ previous = NoReport
    /\ calls = Len(disk)
    /\ clock = 0
    /\ output = NoOutput
    /\ call = [fn |-> "batch_evaluate", results |-> <<>>]
    /\ ret = NoRet

\* if not requirement_files: print the error and return.
BatchEvaluateNothingFound ==
    /\ call.fn = "batch_evaluate"
    /\ ~ret.done
    /\ disk = <<>>
    /\ ret' = Returned([found |-> FALSE])
    /\ UNCHANGED <<profile, disk, args, content, report, previous, calls, clock, output, call>>

\* The entry batch_evaluate makes of a report; the file is named by its
\* place in requirement_files.
BatchEntry(filename, rpt) ==
    [ filename        |-> filename,
      total_score     |-> rpt.evaluation_summary.total_score,
      max_total_score |-> rpt.evaluation_summary.max_total_score,
      percentage      |-> rpt.evaluation_summary.percentage,
      grade           |-> rpt.evaluation_summary.grade ]

\* One turn of the for loop: a fresh analyzer on the next file, its
\* report, and `continue` on an error or results.append(...).
BatchEvaluateDocument ==
    /\ call.fn = "batch_evaluate"
    /\ ~ret.done
    /\ calls > 0
    /\ calls' = calls - 1
    /\ previous' = report
    /\ LET filename == Len(disk) - calls + 1
           requirement_file == disk[filename]
       IN  IF ~LoadFile(requirement_file)
           THEN /\ report' = ErrorReport
                /\ UNCHANGED call
           ELSE /\ report' = RequirementReport(requirement_file.text)
                /\ call' = [call EXCEPT !.results =
                               Append(@, BatchEntry(filename,
                                                    RequirementReport(requirement_file.text)))]
    /\ UNCHANGED <<profile, disk, args, content, clock, output, ret>>

\* results.sort(key=lambda x: x['total_score'], reverse=True): a stable
\* sort, and reverse=True keeps entries of equal total in their order.
RECURSIVE InsertByTotalScore(_, _)
InsertByTotalScore(sorted, x) ==
    IF sorted = <<>> THEN <<x>>
    ELSE IF sorted[1].total_score >= x.total_score
         THEN <<sorted[1]>> \o InsertByTotalScore(Tail(sorted), x)
         ELSE <<x>> \o sorted

RECURSIVE SortedByTotalScore(_)
SortedByTotalScore(results) ==
    IF results = <<>> THEN <<>>
    ELSE InsertByTotalScore(SortedByTotalScore(SubSeq(results, 1, Len(results) - 1)),
                            results[Len(results)])

\* The summary with the entries in the order of the loop.
BatchSummaryUnsorted(results) ==
    [ found |-> TRUE, table |-> results, average |-> <<>> ]

\* The summary table and the average line: total_scores and max_scores
\* add up over the sorted entries; the line is printed `if results`, with
\* total_scores / len(results) to one decimal and
\* (total_scores / max_scores) * 100 to two.
BatchSummary(results) ==
    LET sorted       == SortedByTotalScore(results)
        total_scores == FloatSumFrom(PyFloatOfInt(0),
                                     [i \in DOMAIN sorted |-> sorted[i].total_score])
        max_scores   == SumSeq([i \in DOMAIN sorted |-> sorted[i].max_total_score])
    IN  [ found   |-> TRUE,
          table   |-> [i \in DOMAIN sorted |->
                         [filename |-> sorted[i].filename,
                          total_score |-> sorted[i].total_score,
                          percentage |-> sorted[i].percentage]],
          average |-> IF results # <<>>
                      THEN << [total_score |-> FormatTenths(PyTrueDiv(total_scores, Len(results))),
                               percentage  |-> PyPercent2(total_scores, max_scores \div 10)] >>
                      ELSE <<>> ]

\* After the loop: the sort and the printed summary.
BatchEvaluateSummary ==
    /\ call.fn = "batch_evaluate"
    /\ ~ret.done
    /\ disk # <<>>
    /\ calls = 0
    /\ ret' = Returned(BatchSummary(call.results))
    /\ UNCHANGED <<profile, disk, args, content, report, previous, calls, clock, output, call>>

NextBatch ==
    \/ BatchEvaluateNothingFound
    \/ BatchEvaluateDocument
    \/ BatchEvaluateSummary

SpecBatch == InitBatch /\ [][NextBatch]_vars

(***************************************************************************)
(* The pure functions on their own: a call is drawn with its inputs, and   *)
(* the function applied to them gives ret.                                 *)
(***************************************************************************)
\* Ratios handed to _calculate_grade: n/10000 for n up to MaxBasisPoints.
MaxBasisPoints == 10000

Analyzers == {"requirement", "frontend", "backend", "bug", "project"}

GradeCalls ==
    {[fn |-> "_calculate_grade", analyzer |-> a, basis_points |-> n] :
        a \in Analyzers, n \in 0..MaxBasisPoints}

\* A function_keywords table other than the one __init__ sets.
ExampleKeywords == << [name |-> "a", weight |-> 20], [name |-> "b", weight |-> 15] >>

\* A function_keywords table whose weights add up to 0.
ZeroWeightKeywords == << [name |-> "a", weight |-> 0], [name |-> "b", weight |-> 0] >>

CoverageCalls ==
    {[fn |-> "evaluate_function_coverage", function_keywords |-> t,
      text |-> Text(w, {}, EmptyText.counts, EmptyText.ears)] :
        t \in {RequirementFunctionKeywords},
        w \in SUBSET Range(Names(RequirementFunctionKeywords))}
    \cup
    {[fn |-> "evaluate_function_coverage", function_keywords |-> t,
      text |-> Text(w, {}, EmptyText.counts, EmptyText.ears)] :
        t \in {ExampleKeywords, ZeroWeightKeywords},
        w \in SUBSET Range(Names(ExampleKeywords))}

FixQualityCalls ==
    {[fn |-> "evaluate_fix_quality", completely_fixed |-> c, introduced_new_bugs |-> i] :
        c \in BOOLEAN, i \in BOOLEAN}

\* A function_keywords table with an auxiliary keyword (weight 1).
AuxiliaryKeywords ==
    << [name |-> "a", weight |-> 20], [name |-> "b", weight |-> 15],
       [name |-> "c", weight |-> 10] >>

\* _generate_recommendations of the requirement analyzer, on the results of
\* its evaluators over a text: every choice of function keywords, of
\* sections and of technologies, and the auxiliary table.
RequirementRecommendationCalls ==
    {[fn |-> "_generate_recommendations", analyzer |-> "requirement",
      function_keywords |-> RequirementFunctionKeywords, text |-> t] :
        t \in VaryFunctionKeywords(EmptyText) \cup VarySections(CompleteText)
                \cup VaryTech(CompleteText)}
    \cup
    {[fn |-> "_generate_recommendations", analyzer |-> "requirement",
      function_keywords |-> AuxiliaryKeywords,
      text |-> Text(w, {}, EmptyText.counts, EmptyText.ears)] :
        w \in SUBSET Range(Names(AuxiliaryKeywords))}

\* _generate_recommendations of the frontend analyzer, likewise.
FrontendRecommendationCalls ==
    {[fn |-> "_generate_recommendations", analyzer |-> "frontend", text |-> t] :
        t \in FrontendTexts}

\* _generate_recommendations of the bug analyzer on results with every
\* count of discovered and of fixed bugs up to MaxBugs, and either flag.
MaxBugs == 3

BugRecommendationCalls ==
    {[fn |-> "_generate_recommendations", analyzer |-> "bug",
      bug_discovery |-> [discovered_bugs |-> d, total_bugs |-> t],
      bug_fix |-> [fixed_bugs |-> f, total_discovered_bugs |-> d],
      fix_quality |-> FixQualityResult(c, i)] :
        t \in 0..MaxBugs, d \in 0..MaxBugs, f \in 0..MaxBugs, c \in BOOLEAN, i \in BOOLEAN}

\* quality_scores of evaluate_project_quality: any of the aspects, each at
\* 0, just under 70% of its maximum, at 70% and at its maximum (in tenths).
QualityScoreLevels(aspect) ==
    LET weight == WeightOf(QualityAspects, aspect)
    IN  <<0, 7 * weight - 1, 7 * weight, 10 * weight>>

ProjectRecommendationCalls ==
    UNION {{[fn |-> "_generate_recommendations", analyzer |-> "project",
             quality_scores |-> [n \in D |-> QualityScoreLevels(n)[level[n]]]] :
               level \in [D -> 1..4]} : D \in SUBSET Range(Names(QualityAspects))}

\* Reports handed to _generate_markdown_report.
MarkdownCalls ==
    {[fn |-> "_generate_markdown_report", analyzer |-> "requirement",
      report |-> RequirementReport(t)] : t \in BaseTexts}
        \cup {[fn |-> "_generate_markdown_report", analyzer |-> "frontend",
                report |-> FrontendReport([words |-> w])] : w \in {{}, FrontendWords}}

\* The evaluators that divide by a total, with totals of 0 and above.
TotalCalls ==
    {[fn |-> "evaluate_bug_discovery", preset_bugs |-> b] :
        b \in {SubSeq(PresetBugs, 1, n) : n \in 0..Len(PresetBugs)}}
    \cup
    {[fn |-> "evaluate_bug_fix",
      fix_count_result |-> [fixed_bugs |-> f, total_discovered_bugs |-> d], elapsed |-> e] :
        d \in 0..MaxBugs, f \in 0..MaxBugs, e \in {0, 1800, 3600, 7200}}
    \cup
    {[fn |-> "evaluate_api_completion", implemented_apis |-> n, total_apis |-> t] :
        n \in 0..MaxApi, t \in {0, AssumedTotalApis}}
    \cup
    {[fn |-> "evaluate_project_completion", implemented_features |-> n, total_features |-> t] :
        n \in 0..8, t \in {0, 8}}

\* Scores mappings for merge_scores: up to MaxDocuments names, with values
\* from the tables of main and from the examples (10, 20) and (5, 10).
MaxDocuments == 2

DocumentNames == <<"X", "Y", "Z", "W">>

ScoreValues ==
    { <<PyFloatOfInt(10), PyFloatOfInt(20)>>, <<PyFloatOfInt(5), PyFloatOfInt(10)>>,
      <<PyFloatOfTenths(406), PyFloatOfHundredths(5413)>>,
      <<PyFloatOfTenths(565), PyFloatOfHundredths(7533)>> }

\* The mappings with the names of subset names, inserted in the order of
\* DocumentNames.
ScoresOver(names) ==
    LET order == SelectSeq(DocumentNames, LAMBDA n : n \in names)
    IN  {[k \in DOMAIN order |-> Entry(order[k], v[k][1], v[k][2])] :
            v \in [DOMAIN order -> ScoreValues]}

ScoresTables ==
    UNION {ScoresOver(names) :
             names \in SUBSET {DocumentNames[k] : k \in 1..MaxDocuments}}

MergeCalls ==
    {[fn |-> "merge_scores", scores1 |-> a, scores2 |-> b] :
        a \in ScoresTables, b \in ScoresTables}

\* Mappings for print_sorted_scores: up to MaxPrinted entries in any order
\* of insertion, with totals that tie, that differ, and that differ only
\* past the decimal printed (89.6, 85.1 and 89.64).
MaxPrinted == 3

PrintedTotals == {PyFloatOfHundredths(8960), PyFloatOfHundredths(8510), PyFloatOfHundredths(8964)}

PrintCalls ==
    {[fn |-> "print_sorted_scores",
      scores |-> [k \in DOMAIN order |-> Entry(order[k], t[k], PyFloatOfHundredths(5413))]] :
        order \in UNION {Orders(names) :
                            names \in SUBSET {DocumentNames[k] : k \in 1..MaxPrinted}},
        t \in [1..MaxPrinted -> PrintedTotals]}

InitFn ==
    /\ profile = None
    /\ disk = Absent
    /\ args = NoArgs
    /\ content = NoContent
    /\ report = NoReport
    /\ previous = NoReport
    /\ calls = 0
    /\ clock = 0
    /\ output = NoOutput
    /\ call \in GradeCalls \cup CoverageCalls \cup FixQualityCalls
                  \cup RequirementRecommendationCalls \cup FrontendRecommendationCalls
                  \cup BugRecommendationCalls \cup MergeCalls \cup PrintCalls
                  \cup TotalCalls \cup MarkdownCalls \cup ProjectRecommendationCalls
    /\ ret = NoRet

\* A call whose arguments are gone when it has returned.
CallingConsuming(fn) ==
    /\ call.fn = fn
    /\ ret = NoRet
    /\ call' = NoCall
    /\ UNCHANGED <<profile, disk, args, content, report, previous, calls, clock, output>>

\* The guard and the frame of every call.
Calling(fn) ==
    /\ call.fn = fn
    /\ ret = NoRet
    /\ UNCHANGED <<profile, disk, args, content, report, previous, calls, clock, output, call>>

CallRequirementCalculateGrade ==
    /\ Calling("_calculate_grade")
    /\ call.analyzer = "requirement"
    /\ ret' = Returned(RequirementCalculateGrade(PyFloatOfBasisPoints(call.basis_points)))

CallFrontendCalculateGrade ==
    /\ Calling("_calculate_grade")
    /\ call.analyzer = "frontend"
    /\ ret' = Returned(FrontendCalculateGrade(PyFloatOfBasisPoints(call.basis_points)))

CallBackendCalculateGrade ==
    /\ Calling("_calculate_grade")
    /\ call.analyzer = "backend"
    /\ ret' = Returned(BackendCalculateGrade(PyFloatOfBasisPoints(call.basis_points)))

CallBugCalculateGrade ==
    /\ Calling("_calculate_grade")
    /\ call.analyzer = "bug"
    /\ ret' = Returned(BugCalculateGrade(PyFloatOfBasisPoints(call.basis_points)))

CallProjectCalculateGrade ==
    /\ Calling("_calculate_grade")
    /\ call.analyzer = "project"
    /\ ret' = Returned(ProjectCalculateGrade(PyFloatOfBasisPoints(call.basis_points)))

CallEvaluateFunctionCoverage ==
    /\ Calling("evaluate_function_coverage")
    /\ ret' = Returned(RequirementEvaluateFunctionCoverage(call.function_keywords, call.text))

CallEvaluateBugDiscovery ==
    /\ Calling("evaluate_bug_discovery")
    /\ ret' = Returned(BugEvaluateBugDiscovery(call.preset_bugs))

CallEvaluateBugFix ==
    /\ Calling("evaluate_bug_fix")
    /\ ret' = Returned(BugEvaluateBugFix(call.fix_count_result, call.elapsed))

CallEvaluateApiCompletion ==
    /\ Calling("evaluate_api_completion")
    /\ ret' = Returned(BackendEvaluateApiCompletion([api |-> call.implemented_apis],
                                                    call.total_apis))

CallEvaluateProjectCompletion ==
    /\ Calling("evaluate_project_completion")
    /\ ret' = Returned(ProjectCompletionResult(call.implemented_features, call.total_features))

CallEvaluateFixQuality ==
    /\ Calling("evaluate_fix_quality")
    /\ ret' = Returned(FixQualityResult(call.completely_fixed, call.introduced_new_bugs))

CallRequirementGenerateRecommendations ==
    /\ Calling("_generate_recommendations")
    /\ call.analyzer = "requirement"
    /\ ret' = Returned(RequirementRecommendations(
                   call.function_keywords,
                   RequirementEvaluateFunctionCoverage(call.function_keywords, call.text),
                   RequirementEvaluateStructureCompleteness(call.text),
                   RequirementEvaluateDescriptionClarity(call.text),
                   RequirementEvaluateTechRequirements(call.text),
                   RequirementEvaluateEarsCompliance(call.text)))

CallFrontendGenerateRecommendations ==
    /\ Calling("_generate_recommendations")
    /\ call.analyzer = "frontend"
    /\ ret' = Returned(FrontendGenerateRecommendations(
                   FrontendEvaluateFunctionCoverage(call.text),
                   FrontendEvaluateUiBeauty(call.text),
                   FrontendEvaluateCodeQuality(call.text)))

CallBugGenerateRecommendations ==
    /\ Calling("_generate_recommendations")
    /\ call.analyzer = "bug"
    /\ ret' = Returned(BugGenerateRecommendations(call.bug_discovery, call.bug_fix,
                                                  call.fix_quality))

\* ProjectAnalyzer._generate_recommendations over the results of the four
\* evaluators, evaluate_project_quality having these quality_scores.
CallProjectGenerateRecommendations ==
    /\ Calling("_generate_recommendations")
    /\ call.analyzer = "project"
    /\ ret' = Returned(ProjectGenerateRecommendations(
                           ProjectEvaluateProjectCompletion,
                           ProjectEvaluateTestPassRate(ProjectTestResults),
                           ProjectEvaluateDeliveryEfficiency(0),
                           ProjectEvaluateProjectQuality(call.quality_scores)))

\* merge_scores(scores1, scores2), for every order in which the set
\* all_names may be iterated.
CallMergeScores ==
    /\ Calling("merge_scores")
    /\ \E all_names \in Orders(Keys(call.scores1) \cup Keys(call.scores2)) :
           ret' = Returned(MergeScores(call.scores1, call.scores2, all_names))

CallPrintSortedScores ==
    /\ Calling("print_sorted_scores")
    /\ ret' = Returned(PrintSortedScores(call.scores))

CallGenerateMarkdownReport ==
    /\ Calling("_generate_markdown_report")
    /\ ret' = Returned(IF call.analyzer = "requirement"
                       THEN RequirementGenerateMarkdownReport(call.report)
                       ELSE FrontendGenerateMarkdownReport(call.report))

NextFn ==
    \/ CallRequirementCalculateGrade
    \/ CallFrontendCalculateGrade
    \/ CallBackendCalculateGrade
    \/ CallBugCalculateGrade
    \/ CallProjectCalculateGrade
    \/ CallEvaluateFunctionCoverage
    \/ CallEvaluateFixQuality
    \/ CallRequirementGenerateRecommendations
    \/ CallFrontendGenerateRecommendations
    \/ CallBugGenerateRecommendations
    \/ CallMergeScores
    \/ CallPrintSortedScores
    \/ CallEvaluateBugDiscovery
    \/ CallEvaluateBugFix
    \/ CallEvaluateApiCompletion
    \/ CallEvaluateProjectCompletion
    \/ CallGenerateMarkdownReport
    \/ CallProjectGenerateRecommendations

SpecFn == InitFn /\ [][NextFn]_vars

(***************************************************************************)
(* Properties.                                                             *)
(***************************************************************************)
Abs(n) == IF n < 0 THEN -n ELSE n

Ok == report.status = "ok"

ScoresOf(results) == [i \in DOMAIN results |-> results[i].total_score]

\* The band of a percentage given in hundredths of a percent.
BandOf(hundredths) ==
    IF hundredths >= 9000 THEN "A"
    ELSE IF hundredths >= 8000 THEN "B"
    ELSE IF hundredths >= 7000 THEN "C"
    ELSE IF hundredths >= 6000 THEN "D"
    ELSE "F"

\* C1: in every report of every profile, each dimension result has
\* 0 <= total_score <= max_score.
C1_DimensionScoresWithinBounds ==
    Ok => \A i \in DOMAIN report.results :
              /\ 0 <= report.results[i].total_score
              /\ report.results[i].total_score <= report.results[i].max_score

\* C2: the summary's total_score is the sum of the dimension scores, its
\* max_total_score the sum of the dimension maxima, and its percentage is
\* total / max * 100 at the nearest hundredth.
C2_SummaryIsSumOfDimensions ==
    Ok => LET summary == report.evaluation_summary
              total   == SumSeq(ScoresOf(report.results))
              max     == SumSeq([i \in DOMAIN report.results |-> report.results[i].max_score])
          IN  /\ summary.total_score = total
              /\ summary.max_total_score = max
              /\ 2 * Abs(summary.percentage * max - 10000 * total) <= max

\* A frontend report of 5.0 out of 30: 16.666...% is reported as 16.67.
C2_Witness ==
    /\ Ok
    /\ profile = "frontend"
    /\ ScoresOf(report.results) = <<50, 0, 0>>
    /\ report.evaluation_summary.total_score = 50
    /\ report.evaluation_summary.max_total_score = 300
    /\ report.evaluation_summary.percentage = 1667

\* C3: _calculate_grade of every analyzer gives A from 90%, B from 80% up
\* to but excluding 90%, C from 70%, D from 60% and F below 60%, so the
\* five analyzers agree on every ratio.
C3_GradeBandsInclusiveBelow ==
    (ret.done /\ call.fn = "_calculate_grade") => ret.value = BandOf(call.basis_points)

\* 89.99% graded B and 90.0% graded A by the backend analyzer's copy.
C3_Witness ==
    /\ ret.done
    /\ call.fn = "_calculate_grade"
    /\ call.analyzer = "backend"
    /\ \/ call.basis_points = 8999 /\ ret.value = "B"
       \/ call.basis_points = 9000 /\ ret.value = "A"

\* C4: in every report the grade is the band of the reported percentage.
C4_GradeIsBandOfReportedPercentage ==
    Ok => report.evaluation_summary.grade = BandOf(report.evaluation_summary.percentage)

\* The score of the first bucket whose bound is above elapsed.
FirstBucket(elapsed, b1, b2, b3) ==
    CASE elapsed < b1 -> 10
      [] b1 <= elapsed /\ elapsed < b2 -> 7
      [] b2 <= elapsed /\ elapsed < b3 -> 4
      [] b3 <= elapsed -> 1

\* C5: the efficiency score of the bug and of the project profile is that of
\* the first bucket whose upper bound is strictly greater than the elapsed
\* time; a time equal to a bound falls into the next bucket, and negative
\* times are scored like any other.
C5_StrictThresholdBuckets ==
    /\ (Ok /\ profile = "bug") =>
           report.results[2].fix_efficiency_score
               = FirstBucket(args.elapsed, 1800, 3600, 7200)
    /\ (Ok /\ profile = "project") =>
           report.results[3].total_score
               = 10 * FirstBucket(args.elapsed, 86400, 172800, 259200)

\* A fix that took exactly 1800 seconds scores 7.
C5_Witness ==
    /\ Ok
    /\ profile = "bug"
    /\ args.elapsed = 1800
    /\ report.results[2].fix_efficiency_score = 7

\* C6: evaluate_function_coverage, for a table whose weights add up to more
\* than 0, gives matched weight / total weight * max_score at the nearest
\* tenth: 20 when all keywords match, 0 when none does, normalised by the
\* weight sum (18 for the configured table), and 11.4 for weights
\* {a: 2, b: 1.5} with only a matched.
C6_WeightedKeywordScore ==
    (/\ ret.done
     /\ call.fn = "evaluate_function_coverage"
     /\ SumWeights(call.function_keywords, Names(call.function_keywords)) > 0) =>
        LET table   == call.function_keywords
            names   == Names(table)
            present == {n \in Range(names) : n \in call.text.words}
            weights == SumWeights(table, names)
            matched == SumWeights(table, Filter(names, present))
            result  == ret.value
        IN  /\ result.max_score = 200
            /\ 2 * Abs(result.total_score * weights - matched * result.max_score) <= weights
            /\ present = Range(names) => result.total_score = result.max_score
            /\ present = {} => result.total_score = 0
            /\ table = RequirementFunctionKeywords => weights = 180
            /\ (table = ExampleKeywords /\ present = {"a"}) => result.total_score = 114

\* The example table with only a matched scores 11.4.
C6_Witness ==
    /\ ret.done
    /\ call.fn = "evaluate_function_coverage"
    /\ call.function_keywords = ExampleKeywords
    /\ call.text.words = {"a"}
    /\ ret.value.total_score = 114

\* What evaluate_structure_completeness returns when a found section's
\* quality is base + keyword bonus + length bonus: every found section has
\* that quality, and the dimension score is the sum of quality / 4 * weight
\* over the found sections at the nearest tenth (a tie goes to the even
\* tenth).
StructureFollows(base) ==
    (Ok /\ profile = "requirement") =>
        LET text    == content.text
            result  == report.results[2]
            found   == {i \in DOMAIN StructureCriteria : StructureCriteria[i].name \in text.words}
            quality == [i \in found |->
                          base
                          + (IF Cardinality({k \in Range(StructureCriteria[i].keywords) :
                                                k \in text.words}) >= 2 THEN 1 ELSE 0)
                          + (IF StructureCriteria[i].name \in text.long THEN 1 ELSE 0)]
            quarters == SumSeq([i \in DOMAIN StructureCriteria |->
                                  IF i \in found THEN quality[i] * StructureCriteria[i].weight
                                  ELSE 0])
        IN  /\ DOMAIN result.quality_scores = {StructureCriteria[i].name : i \in found}
            /\ \A i \in found : result.quality_scores[StructureCriteria[i].name] = quality[i]
            /\ 2 * Abs(4 * result.total_score - 10 * quarters) <= 4
            /\ 2 * Abs(4 * result.total_score - 10 * quarters) = 4 => result.total_score % 2 = 0

\* C7 as stated: one base point for a section that is present, so that a
\* section with neither bonus has quality 1 and gives a quarter of its
\* weight.
C7_BasePointIsOne == StructureFollows(1)

\* C7 as the code has it: two base points for a section that is present,
\* one for two or more context keywords, one for a long enough body; the
\* section gives quality / 4 of its weight, so a section with neither bonus
\* has quality 2 and gives half of its weight, and an absent section gives
\* nothing whatever keywords are present.
C7_BasePointsAreTwo == StructureFollows(2)

\* The first section alone, with neither bonus: quality 2, 1.5 of its 3.
C7_Witness ==
    /\ Ok
    /\ profile = "requirement"
    /\ content.text.words \cap SectionNames = {"sec_tech"}
    /\ content.text.long = {}
    /\ KeywordCount(content.text, StructureCriteria[1].keywords) < 2
    /\ report.results[2].quality_scores["sec_tech"] = 2
    /\ report.results[2].total_score = 15

\* The tier bonus of a raw count sum, highest tier first.
TierBonus(sum) ==
    IF sum >= 10 THEN 3 ELSE IF sum >= 5 THEN 2 ELSE IF sum >= 2 THEN 1 ELSE 0

\* C8: evaluate_description_clarity gives the sum over the four categories
\* of min(count, 3), plus a bonus on the sum of the uncapped counts: 3 from
\* 10, 2 from 5, 1 from 2, else 0.
C8_ClarityIsCappedCountsPlusTierBonus ==
    (Ok /\ profile = "requirement") =>
        LET counts == [i \in DOMAIN QuantifiableCategories |->
                          content.text.counts[QuantifiableCategories[i]]]
            capped == [i \in DOMAIN counts |-> IF counts[i] < 3 THEN counts[i] ELSE 3]
        IN  report.results[3].total_score = 10 * (SumSeq(capped) + TierBonus(SumSeq(counts)))

\* Raw counts 5, 0, 2, 1 give 6 + 2 = 8.
C8_Witness ==
    /\ Ok
    /\ profile = "requirement"
    /\ content.text.counts["cat_time"] = 5
    /\ content.text.counts["cat_quantity"] = 0
    /\ content.text.counts["cat_perf"] = 2
    /\ content.text.counts["cat_tech"] = 1
    /\ report.results[3].total_score = 80

\* C9: evaluate_fix_quality gives 10 for completely fixed without a new bug,
\* 7 for partially fixed without a new bug, 5 for completely fixed with a
\* new bug and 2 for partially fixed with a new bug.
C9_FixQualityRubric ==
    (ret.done /\ call.fn = "evaluate_fix_quality") =>
        ret.value.total_score =
            10 * (CASE call.completely_fixed /\ ~call.introduced_new_bugs -> 10
                    [] ~call.completely_fixed /\ ~call.introduced_new_bugs -> 7
                    [] call.completely_fixed /\ call.introduced_new_bugs -> 5
                    [] ~call.completely_fixed /\ call.introduced_new_bugs -> 2)

\* C10: the recommendations of a report are never empty; the canned message
\* is among them exactly when no dimension produced one, and then it is the
\* only element.
C10_CannedIffNoRecommendation ==
    Ok => LET recommendations == report.recommendations
              canned == {i \in DOMAIN recommendations : recommendations[i] = Canned}
              others == {i \in DOMAIN recommendations : recommendations[i].about # None}
          IN  /\ recommendations # <<>>
              /\ canned # {} <=> others = {}
              /\ canned # {} => recommendations = <<Canned>>
              /\ canned \cup others = DOMAIN recommendations

\* A frontend file with all twelve literals gets the canned message alone.
C10_Witness ==
    /\ Ok
    /\ profile = "frontend"
    /\ content.text.words = FrontendWords
    /\ report.recommendations = <<Canned>>

\* The place of dimension d in the order generate_evaluation_report runs the
\* evaluators.
PipelineIndex(d) == CHOOSE i \in DOMAIN report.dimensions : report.dimensions[i] = d

\* C11: in every report the recommendations come in the order in which the
\* dimensions are evaluated: a recommendation about a dimension never comes
\* before one about a dimension evaluated earlier, however many items each
\* of them names.
C11_RecommendationsFollowPipelineOrder ==
    Ok => LET recommendations == report.recommendations
          IN  \A i, j \in DOMAIN recommendations :
                  (i < j /\ recommendations[i].about # None /\ recommendations[j].about # None)
                      => PipelineIndex(recommendations[i].about)
                             <= PipelineIndex(recommendations[j].about)

\* A frontend file that misses one UI aspect and three code-quality
\* aspects: the UI recommendation still comes first.
C11_Witness ==
    /\ Ok
    /\ profile = "frontend"
    /\ Len(report.recommendations) = 2
    /\ report.recommendations[1].about = "ui_beauty"
    /\ Len(report.recommendations[1].items) = 1
    /\ report.recommendations[2].about = "code_quality"
    /\ Len(report.recommendations[2].items) = 3

\* C12: a dimension that scores 0 has a recommendation about it in the
\* report, so the canned "quality is good" message is never the only
\* recommendation while some dimension has score 0 (in the backend profile:
\* never while test_pass_rate scores 0 of 10).
C12_ZeroDimensionGetsRecommendation ==
    Ok => /\ \A i \in DOMAIN report.results :
                report.results[i].total_score = 0
                    => \E k \in DOMAIN report.recommendations :
                           report.recommendations[k].about = report.dimensions[i]
          /\ (\E i \in DOMAIN report.results : report.results[i].total_score = 0)
                => report.recommendations # <<Canned>>

\* The configured names that a text does not hold, in configured order.
MissingFrom(names, words) == SelectSeq(names, LAMBDA n : n \notin words)

\* items[1], ", ", items[2], ", ", ..., items[n].
CommaSeparated(items) ==
    [k \in 1..(2 * Len(items) - 1) |-> IF k % 2 = 1 THEN items[(k + 1) \div 2] ELSE ", "]

\* The one message that names items after the words of template; no
\* message when there is no item.
Naming(template, items) ==
    IF items = <<>> THEN <<>> ELSE << <<template>> \o CommaSeparated(items) >>

\* The messages about dimension d among recommendations, in order.
MessagesAbout(recommendations, d) ==
    LET about == SelectSeq(recommendations, LAMBDA r : r.about = d)
    IN  [k \in DOMAIN about |-> about[k].text]

\* C13: for every dimension with a missing list (requirement: function
\* keywords, sections, technologies; frontend: functions, UI aspects,
\* code-quality aspects) the recommendations about it name exactly the
\* missing items, each once, comma-separated in configured order, in one
\* message; for the requirement function keywords the items are split into
\* a priority message (weight >= 1.5) followed by a secondary message
\* (weight < 1.5), each present only when it has an item to name.
C13_MissingItemsAreNamedOnce ==
    (ret.done /\ call.fn = "_generate_recommendations" /\ call.analyzer \in {"requirement", "frontend"}) =>
        LET words == call.text.words
            about(d) == MessagesAbout(ret.value, d)
            missing(table) == MissingFrom(Names(table), words)
        IN  IF call.analyzer = "requirement"
            THEN LET table == call.function_keywords
                     weight(n) == table[CHOOSE k \in DOMAIN table : table[k].name = n].weight
                     priority  == SelectSeq(missing(table), LAMBDA n : weight(n) >= 15)
                     secondary == SelectSeq(missing(table), LAMBDA n : weight(n) < 15)
                 IN  /\ about("function_coverage")
                           = Naming("add important functions", priority)
                               \o Naming("add auxiliary functions", secondary)
                     /\ about("structure_completeness")
                           = Naming("add sections", missing(StructureCriteria))
                     /\ about("tech_requirements")
                           = Naming("specify tech stack", missing(TechRequirements))
            ELSE /\ about("function_coverage")
                       = Naming("implement missing functions", missing(FrontendFunctionKeywords))
                 /\ about("ui_beauty") = Naming("improve ui aspects", missing(UiAspects))
                 /\ about("code_quality")
                       = Naming("improve code quality aspects", missing(CodeQualityAspects))

\* The auxiliary table with nothing matched: a and b in the priority
\* message, c in the secondary one.
C13_Witness ==
    /\ ret.done
    /\ call.fn = "_generate_recommendations"
    /\ call.analyzer = "requirement"
    /\ call.function_keywords = AuxiliaryKeywords
    /\ call.text.words = {}
    /\ MessagesAbout(ret.value, "function_coverage")
          = << <<"add important functions", "a", ", ", "b">>,
               <<"add auxiliary functions", "c">> >>

\* C14: the recommendations of the bug profile hold the "avoid introducing
\* new bugs" message exactly once when fix_quality.introduced_new_bugs is
\* true, whatever the discovery and fix counts are, and after every
\* recommendation about discovery or fixing; they do not hold it when the
\* flag is false.
C14_NewBugCautionFollowsFlag ==
    (ret.done /\ call.fn = "_generate_recommendations" /\ call.analyzer = "bug") =>
        LET recommendations == ret.value
            caution == {k \in DOMAIN recommendations :
                           recommendations[k].text = <<"avoid introducing new bugs">>}
        IN  IF call.fix_quality.introduced_new_bugs
            THEN /\ Cardinality(caution) = 1
                 /\ \A k \in caution : \A j \in DOMAIN recommendations :
                        recommendations[j].about \in {"bug_discovery", "bug_fix"} => j < k
            ELSE caution = {}

\* One bug undiscovered, one unfixed and a new bug introduced: three
\* recommendations, the caution last.
C14_Witness ==
    /\ ret.done
    /\ call.fn = "_generate_recommendations"
    /\ call.analyzer = "bug"
    /\ call.bug_discovery = [discovered_bugs |-> 2, total_bugs |-> 3]
    /\ call.bug_fix = [fixed_bugs |-> 1, total_discovered_bugs |-> 2]
    /\ call.fix_quality.introduced_new_bugs
    /\ Len(ret.value) = 3
    /\ ret.value[3].text = <<"avoid introducing new bugs">>

\* The entry of name in a mapping that has it.
EntryOf(scores, name) == scores[CHOOSE k \in DOMAIN scores : scores[k].name = name]

\* C15: merge_scores returns a mapping whose keys are the names of either
\* input, each once; a name of one input only keeps its total and rate, a
\* name of both has the sums of the totals and of the rates (a rate sum is
\* not capped at 100); {X: (10, 20)} merged with {Y: (5, 10)} is
\* {X: (10, 20), Y: (5, 10)} and merged with {X: (5, 10)} is {X: (15, 30)}.
C15_MergeAddsOverTheUnion ==
    (ret.done /\ call.fn = "merge_scores") =>
        LET merged == ret.value
            names1 == Keys(call.scores1)
            names2 == Keys(call.scores2)
            X      == <<Entry("X", PyFloatOfInt(10), PyFloatOfInt(20))>>
        IN  /\ Keys(merged) = names1 \cup names2
            /\ Len(merged) = Cardinality(names1 \cup names2)
            /\ \A name \in names1 \ names2 :
                   EntryOf(merged, name) = EntryOf(call.scores1, name)
            /\ \A name \in names2 \ names1 :
                   EntryOf(merged, name) = EntryOf(call.scores2, name)
            /\ \A name \in names1 \cap names2 :
                   /\ EntryOf(merged, name).total =
                         PyAdd(EntryOf(call.scores1, name).total, EntryOf(call.scores2, name).total)
                   /\ EntryOf(merged, name).rate =
                         PyAdd(EntryOf(call.scores1, name).rate, EntryOf(call.scores2, name).rate)
            /\ (call.scores1 = X /\ call.scores2 = <<Entry("Y", PyFloatOfInt(5), PyFloatOfInt(10))>>) =>
                   /\ Len(merged) = 2
                   /\ EntryOf(merged, "X") = X[1]
                   /\ EntryOf(merged, "Y") = call.scores2[1]
            /\ (call.scores1 = X /\ call.scores2 = <<Entry("X", PyFloatOfInt(5), PyFloatOfInt(10))>>) =>
                   merged = <<Entry("X", PyFloatOfInt(15), PyFloatOfInt(30))>>

\* 56.5 / 75.33 merged with 40.6 / 54.13 under the same name, next to a name
\* of the first mapping only: a total of 97.1 and a rate above 100.
C15_Witness ==
    /\ ret.done
    /\ call.fn = "merge_scores"
    /\ Keys(call.scores1) = {"X", "Y"}
    /\ Keys(call.scores2) = {"X"}
    /\ EntryOf(call.scores1, "X").rate = PyFloatOfHundredths(7533)
    /\ EntryOf(call.scores2, "X").rate = PyFloatOfHundredths(5413)
    /\ FormatTenths(EntryOf(ret.value, "X").total) = 971
    /\ FormatHundredths(EntryOf(ret.value, "X").rate) = 12946
    /\ ret.value[1].name = "Y"

\* The position of name in a mapping that has it.
PositionOf(scores, name) == CHOOSE k \in DOMAIN scores : scores[k].name = name

\* C16: print_sorted_scores prints, after its two header lines, one line for
\* each entry of the mapping and no other, with the entry's total and rate;
\* the totals do not increase down the lines, and entries of equal total
\* stand in their order of insertion.
C16_PrintedByTotalDescending ==
    (ret.done /\ call.fn = "print_sorted_scores") =>
        LET scores == call.scores
            lines  == ret.value.lines
            total(k) == EntryOf(scores, lines[k].name).total
        IN  /\ Len(ret.value.header) = 2
            /\ Len(lines) = Len(scores)
            /\ {lines[k].name : k \in DOMAIN lines} = Keys(scores)
            /\ \A k \in DOMAIN lines :
                   /\ lines[k].total = FormatTenths(EntryOf(scores, lines[k].name).total)
                   /\ lines[k].rate = FormatHundredths(EntryOf(scores, lines[k].name).rate)
            /\ \A j, k \in DOMAIN lines :
                   j < k =>
                     /\ BigGE(total(j), total(k))
                     /\ total(j) = total(k) =>
                          PositionOf(scores, lines[j].name) < PositionOf(scores, lines[k].name)

\* Z 89.6, X 89.64, Y 89.6 inserted in that order: X is printed first, then
\* the tie Z and Y in their order of insertion, all three as 89.6.
C16_Witness ==
    /\ ret.done
    /\ call.fn = "print_sorted_scores"
    /\ Len(call.scores) = 3
    /\ call.scores[1].name = "Z" /\ call.scores[1].total = PyFloatOfHundredths(8960)
    /\ call.scores[2].name = "X" /\ call.scores[2].total = PyFloatOfHundredths(8964)
    /\ call.scores[3].name = "Y" /\ call.scores[3].total = PyFloatOfHundredths(8960)
    /\ ret.value.lines[1].name = "X"
    /\ ret.value.lines[2].name = "Z"
    /\ ret.value.lines[3].name = "Y"
    /\ \A k \in 1..3 : ret.value.lines[k].total = 896

\* The lines of one kind in a document, in their order.
LinesOf(document, kind) == SelectSeq(document, LAMBDA line : line.kind = kind)

\* C17: the document save_report_to_file writes, in each of the five
\* profiles, has a summary block of four lines: the evaluation date, the
\* total over the maximum, the percentage and the grade of the report.
C17_SummaryBlockHasFourFields ==
    output.written =>
        LET block   == LinesOf(output.document, "summary")
            summary == report.evaluation_summary
        IN  /\ [i \in DOMAIN block |-> block[i].field]
                  = <<"evaluation_date", "total_score", "percentage", "grade">>
            /\ block[1].value = summary.evaluation_date
            /\ block[2].value = <<summary.total_score, summary.max_total_score>>
            /\ block[3].value = summary.percentage
            /\ block[4].value = summary.grade

\* The place of the heading numbered k in a document that has one.
HeadingAt(document, k) ==
    CHOOSE i \in DOMAIN document : document[i].kind = "heading" /\ document[i].number = k

\* The lines of the section numbered k of a document with n sections that
\* ends with n_recommendations lines: those after its heading and before
\* the next heading, or before the closing lines.
SectionLines(document, k, n, n_recommendations) ==
    SubSeq(document, HeadingAt(document, k) + 1,
           IF k < n THEN HeadingAt(document, k + 1) - 1
           ELSE Len(document) - n_recommendations)

\* What the detail lines of a section should show: the details of the
\* dimension's result (for delivery_efficiency its one detail).
DetailsOf(result) ==
    IF "details" \in DOMAIN result THEN result.details ELSE <<result.detail>>

\* The criteria a dimension is configured with, where its evaluator loops
\* over a configured table; <<>> for the dimensions that report counts.
ConfiguredCriteria(analyzer, dimension) ==
    CASE analyzer = "requirement" /\ dimension = "function_coverage" -> Names(RequirementFunctionKeywords)
      [] analyzer = "requirement" /\ dimension = "structure_completeness" -> Names(StructureCriteria)
      [] analyzer = "requirement" /\ dimension = "description_clarity" -> QuantifiableCategories
      [] analyzer = "requirement" /\ dimension = "tech_requirements" -> Names(TechRequirements)
      [] analyzer = "requirement" /\ dimension = "ears_compliance" -> EarsPatterns
      [] analyzer = "frontend" /\ dimension = "function_coverage" -> Names(FrontendFunctionKeywords)
      [] analyzer = "frontend" /\ dimension = "ui_beauty" -> Names(UiAspects)
      [] analyzer = "frontend" /\ dimension = "code_quality" -> Names(CodeQualityAspects)
      [] analyzer = "backend" /\ dimension = "test_pass_rate" -> Names(TestCategories)
      [] analyzer = "backend" /\ dimension = "code_quality" -> Names(QualityCategories)
      [] OTHER -> <<>>

Missing == IF profile = "bug" THEN ~disk.buggy \/ ~disk.fixed ELSE ~disk.exists

\* C20: when the file or directory to evaluate does not exist (for the bug
\* profile: when either of its two files does not), a call of
\* generate_evaluation_report returns the error value alone, without
\* summary, dimension results or recommendations, nothing is loaded, and
\* no report file is ever written.
C20_MissingArtifactGivesNoReport ==
    Missing =>
        /\ report # NoReport =>
              /\ HasError(report)
              /\ DOMAIN report \cap {"evaluation_summary", "dimensions", "results",
                                      "recommendations"} = {}
        /\ content = NoContent
        /\ output = NoOutput

\* The buggy file is there and the fixed one is not, and the call has
\* returned.
C20_Witness ==
    /\ profile = "bug"
    /\ disk = CodeFiles(TRUE, FALSE)
    /\ calls = 0
    /\ report = ErrorReport
    /\ output = NoOutput

\* The document the analyzer under test makes of a report.
MarkdownOf(rpt) ==
    CASE profile = "requirement" -> RequirementGenerateMarkdownReport(rpt)
      [] profile = "frontend" -> FrontendGenerateMarkdownReport(rpt)
      [] profile = "backend" -> BackendGenerateMarkdownReport(rpt)
      [] profile = "bug" -> BugGenerateMarkdownReport(rpt)
      [] profile = "project" -> ProjectGenerateMarkdownReport(rpt)

\* C19: a second call of generate_evaluation_report over the same files and
\* with the same arguments, on the same analyzer or on a fresh one, returns
\* the report the first call returned, and the document made of it is the
\* document made of the first.
C19_SecondEvaluationIsIdentical ==
    previous # NoReport =>
        /\ report = previous
        /\ ~HasError(report) => MarkdownOf(report) = MarkdownOf(previous)

\* The call under test has a total count or a total weight of 0.
ZeroTotal ==
    \/ call.fn = "evaluate_bug_discovery" /\ call.preset_bugs = <<>>
    \/ call.fn = "evaluate_bug_fix" /\ call.fix_count_result.total_discovered_bugs = 0
    \/ call.fn = "evaluate_api_completion" /\ call.total_apis = 0
    \/ call.fn = "evaluate_project_completion" /\ call.total_features = 0
    \/ /\ call.fn = "evaluate_function_coverage"
       /\ SumWeights(call.function_keywords, Names(call.function_keywords)) = 0

\* C21: evaluate_bug_discovery, evaluate_bug_fix, evaluate_api_completion,
\* evaluate_project_completion and evaluate_function_coverage, given a total
\* count or a total weight of 0, return a result (they do not raise) and
\* its total_score is 0.
C21_ZeroTotalScoresZero ==
    (ret.done /\ ZeroTotal) =>
        /\ "raised" \notin DOMAIN ret.value
        /\ ret.value.total_score = 0

\* The artifact is there and reading it fails.
ReadFails == IF profile = "bug" THEN ~disk.readable ELSE disk.exists /\ ~disk.readable

\* C22: no run of main ends with an exception that nothing caught; when
\* reading the artifact fails generate_evaluation_report returns the error
\* value, and when the report file cannot be written no file appears.
C22_NoFaultEscapesMain ==
    /\ ~(ret.done /\ "raised" \in DOMAIN ret.value)
    /\ (ReadFails /\ report # NoReport) => HasError(report)
    /\ args.output_report_file.basename = "" => output = NoOutput

LowOrMissing(quality_scores) ==
    {n \in Range(Names(QualityAspects)) :
        \/ n \notin DOMAIN quality_scores
        \/ quality_scores[n] < 7 * WeightOf(QualityAspects, n)}

\* C24: whatever scores evaluate_project_quality recorded, when some aspect
\* is not evaluated or scores under 70% of its maximum, the recommendations
\* of the project analyzer hold one about the quality of aspects and it
\* names every such aspect.
C24_LowAspectsAreNamed ==
    (ret.done /\ call.fn = "_generate_recommendations" /\ call.analyzer = "project") =>
        (LowOrMissing(call.quality_scores) # {} =>
            \E i \in DOMAIN ret.value :
                /\ ret.value[i].about = "project_quality"
                /\ LowOrMissing(call.quality_scores) \subseteq Range(ret.value[i].items))

\* The places in requirement_files, among the first n, of the documents that
\* could be loaded.
Evaluated(n) == {i \in 1..n : LoadFile(disk[i])}

\* C25: batch_evaluate takes the documents in the order found; a document
\* whose report is the error value adds no entry and the loop goes on to
\* the end; every other document adds one entry holding the summary of its
\* report; the table holds these entries in non-increasing order of
\* total_score; the average line is there exactly when there is an entry,
\* and its percentage is the sum of the totals over the sum of the maxima,
\* times 100, to two decimals.
C25_BatchEvaluatesEveryDocument ==
    LET results == call.results
        done    == Evaluated(Len(disk) - calls)
    IN  /\ {results[k].filename : k \in DOMAIN results} = done
        /\ Len(results) = Cardinality(done)
        /\ \A k \in DOMAIN results :
               /\ k > 1 => results[k - 1].filename < results[k].filename
               /\ results[k] = BatchEntry(results[k].filename,
                                          RequirementReport(disk[results[k].filename].text))
        /\ (ret.done /\ disk # <<>>) =>
               LET table == ret.value.table
                   total == SumSeq([k \in DOMAIN results |-> results[k].total_score])
                   max   == SumSeq([k \in DOMAIN results |-> results[k].max_total_score])
               IN  /\ calls = 0
                   /\ Len(table) = Len(results)
                   /\ {table[k].filename : k \in DOMAIN table} = Evaluated(Len(disk))
                   /\ \A k \in DOMAIN table :
                          /\ k > 1 => table[k - 1].total_score >= table[k].total_score
                          /\ table[k].total_score = results[CHOOSE j \in DOMAIN results :
                                 results[j].filename = table[k].filename].total_score
                   /\ (ret.value.average # <<>>) <=> (results # <<>>)
                   /\ results # <<>> =>
                          ret.value.average[1].percentage = PyRoundDiv(total * 10000, max)

\* Three documents, the second of which cannot be read; the third scored
\* higher than the first and stands first in the table, above the average
\* line.
C25_Witness ==
    /\ ret.done
    /\ Len(disk) = 3
    /\ ~LoadFile(disk[2])
    /\ Len(ret.value.table) = 2
    /\ ret.value.table[1].filename = 3
    /\ ret.value.table[1].total_score > ret.value.table[2].total_score
    /\ ret.value.table[2].total_score > 0
    /\ ret.value.average # <<>>

\* The analyzer that made the report is still there, and load_test_files
\* has not returned True on it.
NotSucceeded ==
    /\ content.loaded
    /\ "load_test_files" \notin DOMAIN content \/ ~content.load_test_files

\* C26: a report of the backend analyzer made while load_test_files has not
\* succeeded has a test_pass_rate of 0 with every category at 0 of 0 and no
\* recommendation about tests; and whatever load_swagger_doc did, the
\* report is produced exactly when the backend files load, with the
\* api_completion and code_quality those files give.
C26_TestsEnterOnlyThroughLoadTestFiles ==
    (profile = "backend" /\ report # NoReport) =>
        /\ HasError(report) <=> ~LoadFile(disk)
        /\ ~HasError(report) =>
              /\ Result(report, "api_completion")
                    = Result(BackendReport(disk.files, NoTests), "api_completion")
              /\ Result(report, "code_quality")
                    = Result(BackendReport(disk.files, NoTests), "code_quality")
              /\ NotSucceeded =>
                    /\ Result(report, "test_pass_rate").total_score = 0
                    /\ \A c \in Range(Names(TestCategories)) :
                           Result(report, "test_pass_rate").category_scores[c]
                               = [total |-> 0, passed |-> 0]
                    /\ \A i \in DOMAIN report.recommendations :
                           report.recommendations[i].about # "test_pass_rate"

\* The share of its weight, in percent, that a category with m matches is
\* said to score.
TierPercent(m) ==
    IF m <= 5 THEN 0
    ELSE IF m <= 20 THEN 40
    ELSE IF m <= 50 THEN 70
    ELSE 100

\* The categories named by the code_quality recommendations of a report.
NamedCategories(rpt) ==
    {rpt.recommendations[i].items[1] :
        i \in {j \in DOMAIN rpt.recommendations :
                  rpt.recommendations[j].about = "code_quality"}}

\* C27: in a backend report the code_quality score is the sum, to one
\* decimal, of what each category scores by its match count m alone: 0 up
\* to 5, 40% of its weight for 6..20, 70% for 21..50, all of it above 50;
\* the categories named in a recommendation are those with m < 10, so
\* every category that scores 0 is named and none with m >= 10 is.
C27_QualityTiersAndNamedCategories ==
    (profile = "backend" /\ report # NoReport /\ ~HasError(report)) =>
        LET code_quality == Result(report, "code_quality")
            m == code_quality.category_scores
            names == Names(QualityCategories)
        IN  /\ code_quality.total_score
                  = PyRoundDiv(SumSeq([i \in DOMAIN names |->
                                         TierPercent(m[names[i]]) * QualityCategories[i].weight]),
                               10)
            /\ NamedCategories(report) = {c \in Range(names) : m[c] < 10}
            /\ {c \in Range(names) : TierPercent(m[c]) = 0} \subseteq NamedCategories(report)
            /\ \A c \in NamedCategories(report) : m[c] < 10

\* One category with 9 matches scores 40% and is named, the others with 10
\* score 40% and are not.
C27_Witness ==
    /\ profile = "backend"
    /\ report # NoReport
    /\ ~HasError(report)
    /\ Result(report, "code_quality").category_scores["errors"] = 9
    /\ Result(report, "code_quality").category_scores["security"] = 10
    /\ Result(report, "code_quality").total_score = 40
    /\ NamedCategories(report) = {"errors"}

\* list holds elements of names, each at most once, in the order of names.
KeepsOrder(list, names) ==
    \A i, j \in DOMAIN list :
        i < j => \E a, b \in DOMAIN names : a < b /\ names[a] = list[i] /\ names[b] = list[j]

\* matched and unmatched split names: no element in both, every element of
\* names in one of them once, each list in the order of names.
Splits(matched, unmatched, names) ==
    /\ Range(matched) \cap Range(unmatched) = {}
    /\ Range(matched) \cup Range(unmatched) = Range(names)
    /\ Len(matched) + Len(unmatched) = Len(names)
    /\ KeepsOrder(matched, names)
    /\ KeepsOrder(unmatched, names)

\* C28: in a requirement report the matched and unmatched keywords of
\* function_coverage and of tech_requirements, and in a frontend report the
\* two lists of each of the three dimensions, are disjoint, hold every
\* configured criterion once between them and keep the configured order;
\* function_coverage of the requirement report and the three frontend
\* dimensions score max_score exactly when the unmatched list is empty.
C28_MatchedAndUnmatchedSplitCriteria ==
    (report # NoReport /\ ~HasError(report)) =>
        /\ profile = "requirement" =>
              LET function_coverage == Result(report, "function_coverage")
                  tech_requirements == Result(report, "tech_requirements")
              IN  /\ Splits(function_coverage.matched_keywords,
                            function_coverage.unmatched_keywords,
                            Names(RequirementFunctionKeywords))
                  /\ Splits(tech_requirements.matched_keywords,
                            tech_requirements.unmatched_keywords, Names(TechRequirements))
                  /\ (function_coverage.total_score = function_coverage.max_score)
                        <=> (function_coverage.unmatched_keywords = <<>>)
        /\ profile = "frontend" =>
              \A d \in DOMAIN report.dimensions :
                  /\ Splits(report.results[d].matched, report.results[d].unmatched,
                            ConfiguredCriteria("frontend", report.dimensions[d]))
                  /\ (report.results[d].total_score = report.results[d].max_score)
                        <=> (report.results[d].unmatched = <<>>)

\* A frontend report with every function point found, and with some but
\* not all of the UI aspects.
C28_Witness ==
    /\ profile = "frontend"
    /\ report # NoReport
    /\ ~HasError(report)
    /\ Result(report, "function_coverage").unmatched = <<>>
    /\ Result(report, "function_coverage").total_score = 100
    /\ Len(Result(report, "ui_beauty").matched) = 2
    /\ Len(Result(report, "ui_beauty").unmatched) = 2
    /\ Result(report, "ui_beauty").total_score < 100

\* C29: a frontend report carries the canned message exactly when its
\* total_score is its max_total_score (30 of 30, 100%, grade A), and then
\* carries nothing else; a report with a lower total carries at least one
\* recommendation that names missing items.
C29_FrontendCannedIffFullScore ==
    (profile = "frontend" /\ report # NoReport /\ ~HasError(report)) =>
        LET summary == report.evaluation_summary
            recommendations == report.recommendations
            full == summary.total_score = summary.max_total_score
        IN  /\ summary.max_total_score = 300
            /\ summary.total_score <= summary.max_total_score
            /\ (\E i \in DOMAIN recommendations : recommendations[i] = Canned) <=> full
            /\ full => /\ recommendations = <<Canned>>
                       /\ summary.percentage = 10000
                       /\ summary.grade = "A"
            /\ ~full => \E i \in DOMAIN recommendations : recommendations[i].items # <<>>

\* A frontend file without the one literal 命名规范: 28 of 30, and one
\* recommendation, which names it.
C29_Witness ==
    /\ profile = "frontend"
    /\ report # NoReport
    /\ ~HasError(report)
    /\ report.evaluation_summary.total_score = 280
    /\ Len(report.recommendations) = 1
    /\ report.recommendations[1].about = "code_quality"
    /\ report.recommendations[1].items = <<"naming">>

\* C30: a requirement report whose only recommendation is the canned
\* message has function_coverage 20, structure_completeness of 10 or more,
\* description_clarity of 5 or more, tech_requirements of 7.5 or more and
\* ears_compliance of 6 or more, so a total of at least 48.5 of 75, a
\* percentage of at least 60 and a grade other than F.
C30_CannedAloneMeansAtLeastD ==
    (/\ profile = "requirement"
     /\ report # NoReport
     /\ ~HasError(report)
     /\ report.recommendations = <<Canned>>) =>
        /\ Result(report, "function_coverage").total_score = 200
        /\ Result(report, "structure_completeness").total_score >= 100
        /\ Result(report, "description_clarity").total_score >= 50
        /\ Result(report, "tech_requirements").total_score >= 75
        /\ Result(report, "ears_compliance").total_score >= 60
        /\ report.evaluation_summary.total_score >= 485
        /\ report.evaluation_summary.percentage >= 6000
        /\ report.evaluation_summary.grade # "F"

\* The canned message alone on a report graded D.
C30_Witness ==
    /\ profile = "requirement"
    /\ report # NoReport
    /\ ~HasError(report)
    /\ report.recommendations = <<Canned>>
    /\ report.evaluation_summary.grade = "D"
    /\ report.evaluation_summary.percentage < 7000

====
